---- MODULE Spec2Model ----
(***************************************************************************)
(* Weather service (working_weather_service.py): the aggregator that asks  *)
(* Visual Crossing first and OpenWeatherMap second, and the processor that *)
(* formats the normalized records.                                          *)
(*                                                                          *)
(* Numbers.  A JSON number x is the integer x * Den (ten-thousandths), so   *)
(* that 33.8639 is exact.  A dictionary entry is a record [k, v]: k = "num" *)
(* for a number, "null" for JSON null (Python None), "absent" for a missing *)
(* key.  Rounded numbers stay in Den units: round(x) is a multiple of Den,  *)
(* round(x, 1) a multiple of Den / 10.  Python rounds halves to the even    *)
(* neighbour.  Means are rounded as exact quotients.                        *)
(***************************************************************************)
EXTENDS Integers, Sequences, FiniteSets, TLC

VARIABLES
    phase,      \* "idle", "fetched" (service method returned), "formatted"
    op,         \* the operation in progress
    city,       \* city argument
    units,      \* units argument
    days,       \* day count handed to format_forecast_data
    vcResp,     \* response Visual Crossing served to this call (NoResp: not asked)
    owmResp,    \* response OpenWeatherMap served to this call
    geoResp,    \* response of the geocoding endpoint
    requests,   \* HTTP requests issued by this call, in order
    result,     \* value returned by the service method
    formatted,  \* value returned by the processor
    formattedAgain, \* value returned by a second call of the processor on the same record
    hashOrder,  \* iteration order of sets of strings, fixed when the process starts
    description,    \* description handed to get_weather_icon
    icon,           \* icon get_weather_icon returned for it
    cityEntry,      \* text of the city entry (current_city)
    searchEntry,    \* text of the search entry
    statusText,     \* text of the status bar (status_var)
    progressShown,  \* the progress indicator is packed and running
    apiStatus,      \* text of the API status label
    dialogs,        \* message boxes opened so far, in order
    tabs,           \* content of the four tabs' display frames
    selectedTab,    \* tab the notebook shows
    stored,         \* current_weather_data, forecast_data, alerts_data
    threads,        \* worker threads of the actions, in the order they were started
    validator,      \* the thread that validates the API keys at start-up
    afterQueue,     \* callbacks handed to root.after(0, ...), not yet run
    serviceCalls,   \* number of calls of the weather service made by the threads
    unitsVar,       \* unit system the radio buttons select (units_var)
    snapshot        \* document the last successful save wrote

\* state of a call of the weather service and of the formatting of its result
serviceVars == <<phase, op, city, units, days, vcResp, owmResp, geoResp, requests, result,
                 formatted, hashOrder>>

\* state of an icon lookup
iconVars == <<description, icon>>

\* state of a repeated call of a formatter
repeatVars == <<formattedAgain>>

\* the display surface: what the widgets show
surfaceVars == <<statusText, progressShown, apiStatus, dialogs, tabs, selectedTab>>

\* the unit selection and the exported document
saveVars == <<unitsVar, snapshot>>

\* state of the application window and of its threads
appVars == <<cityEntry, searchEntry, surfaceVars, stored, threads, validator, afterQueue,
             serviceCalls, saveVars>>

vars == <<serviceVars, iconVars, repeatVars, appVars>>

-----------------------------------------------------------------------------
(* Values *)

Den == 10000
InHgToHPa == 338639

Num(n) == [k |-> "num", v |-> n]
Absent == [k |-> "absent", v |-> 0]
Null == [k |-> "null", v |-> 0]

\* dict.get(key, default): the default replaces a missing key only, null stays
Get(x, d) == IF x.k = "absent" THEN d ELSE x

IsNum(x) == x.k = "num"

\* truth value of a dictionary entry fetched with .get(key)
Truthy(x) == x.k = "num" /\ x.v # 0

\* x * 33.8639 for x in Den units (exact for a whole x), whole part and
\* fraction multiplied apart to stay within 32-bit integers
TimesInHgToHPa(x) == (x \div Den) * InHgToHPa + ((x % Den) * InHgToHPa) \div Den

\* a quotient cut off at the integer below
RoundDivDown(n, d) == n \div d

\* round(n / d) for d > 0, halves to even
RoundDiv(n, d) ==
    LET q == n \div d
        r == n % d
    IN  IF 2 * r < d THEN q
        ELSE IF 2 * r > d THEN q + 1
        ELSE IF q % 2 = 0 THEN q ELSE q + 1

\* round(x) of a number in Den units
Round(x) == RoundDiv(x, Den) * Den

\* round(x, 1) of a number in Den units
Round1(x) == RoundDiv(x * 10, Den) * (Den \div 10)

\* round(s / n) and round(s / n, 1) of a sum s in Den units
RoundMean(s, n) == RoundDiv(s, n * Den) * Den
RoundMean1(s, n) == RoundDiv(s * 10, n * Den) * (Den \div 10)

Range(s) == {s[i] : i \in 1..Len(s)}

Min(a, b) == IF a <= b THEN a ELSE b

RECURSIVE Sum(_)
Sum(s) == IF s = <<>> THEN 0 ELSE Head(s) + Sum(Tail(s))

\* the first element taken for the smallest
FirstOf(s) == s[1]

MinOf(s) == CHOOSE x \in Range(s) : \A y \in Range(s) : x <= y
MaxOf(s) == CHOOSE x \in Range(s) : \A y \in Range(s) : x >= y

None == [k |-> "none"]
NoResp == [status |-> "not_requested"]
NotCalled == [k |-> "not_called"]

Cities == {"London", "Pune"}
Units == {"metric", "imperial"}

\* unitGroup query parameter of Visual Crossing
UnitGroup(u) == IF u = "metric" THEN "metric" ELSE "us"

VcRequest(endpoint, c, u) ==
    [provider |-> "visual_crossing", endpoint |-> endpoint, city |-> c, units |-> UnitGroup(u)]

OwmRequest(endpoint, c, u) ==
    [provider |-> "openweathermap", endpoint |-> endpoint, city |-> c, units |-> u]

-----------------------------------------------------------------------------
(* Current conditions *)

FailedResponses == {[status |-> "network_error"], [status |-> "http_error"]}

\* The unit of the pressure number in a Visual Crossing payload: millibars
\* (hPa) in the metric group; in the us group either is admitted.
VcPressureUnits(u) == IF u = "metric" THEN {"hPa"} ELSE {"inHg", "hPa"}

VcPressures(u) ==
    {[pressure |-> p, punit |-> "hPa"] : p \in {Absent, Null, Num(0)}}
    \cup {[pressure |-> Num(1013 * Den), punit |-> "hPa"]}
    \cup (IF "inHg" \in VcPressureUnits(u)
          THEN {[pressure |-> Num(30 * Den), punit |-> "inHg"]} ELSE {})

\* HTTP 200 bodies of the timeline endpoint, as far as currentConditions goes
VcCurrentBodies(u) ==
    {[status |-> "ok", cc |-> c, temp |-> Absent, feelslike |-> Absent,
      humidity |-> Absent, pressure |-> Absent, punit |-> "hPa",
      windspeed |-> Absent, visibility |-> Absent] : c \in {"absent", "null"}}
    \cup
    {[status |-> "ok", cc |-> "dict", temp |-> t, feelslike |-> f,
      humidity |-> Num(802000), pressure |-> p.pressure, punit |-> p.punit,
      windspeed |-> Num(34600), visibility |-> vis] :
        t \in {Absent, Null, Num(15 * Den), Num(-25000)},
        f \in {Num(145000), Null},
        p \in VcPressures(u),
        vis \in {Num(10 * Den), Null}}

VcCurrentResponses(u) == FailedResponses \cup VcCurrentBodies(u)

\* HTTP 200 bodies of OpenWeatherMap /weather; pressure is always in hPa
OwmCurrentBodies ==
    {[status |-> "ok", body |-> "list", mainK |-> "absent", temp |-> Absent,
      feels_like |-> Absent, humidity |-> Absent, pressure |-> Absent,
      weatherK |-> "absent", speed |-> Absent, visibility |-> Absent]}
    \cup
    {[status |-> "ok", body |-> "dict", mainK |-> "absent", temp |-> Absent,
      feels_like |-> Absent, humidity |-> Absent, pressure |-> Absent,
      weatherK |-> w, speed |-> Absent, visibility |-> Absent] :
        w \in {"absent", "list"}}
    \cup
    {[status |-> "ok", body |-> "dict", mainK |-> "dict", temp |-> t,
      feels_like |-> f, humidity |-> Num(70 * Den), pressure |-> p,
      weatherK |-> w, speed |-> Num(51500), visibility |-> Num(10000 * Den)] :
        t \in {Absent, Null, Num(15 * Den), Num(155000)},
        f \in {Num(13 * Den), Null},
        p \in {Num(1013 * Den), Absent},
        w \in {"list", "empty", "absent"}}

OwmCurrentResponses == FailedResponses \cup OwmCurrentBodies

\* WorkingWeatherService._get_vc_current_weather
GetVcCurrentWeather(c, u, resp) ==
    IF resp.status # "ok" THEN None
    ELSE IF resp.cc = "null" THEN None
    ELSE
      LET cur(f) == IF resp.cc = "dict" THEN resp[f] ELSE Absent
          temp == Get(cur("temp"), Num(0))
          vis == Get(cur("visibility"), Num(0))
      IN  IF ~IsNum(temp) \/ ~IsNum(vis) THEN None
          ELSE [k |-> "reading",
                source |-> "visual_crossing",
                mainK |-> "dict",
                temp |-> temp,
                feels_like |-> Get(cur("feelslike"), Num(0)),
                humidity |-> Get(cur("humidity"), Num(0)),
                pressure |-> IF Truthy(cur("pressure"))
                             THEN Num(TimesInHgToHPa(cur("pressure").v))
                             ELSE Num(0),
                temp_min |-> Num(temp.v - 2 * Den),
                temp_max |-> Num(temp.v + 2 * Den),
                weatherK |-> "list",
                speed |-> Get(cur("windspeed"), Num(0)),
                visibility |-> Num(vis.v * 1000)]

\* WorkingWeatherService._get_owm_current_weather
GetOwmCurrentWeather(c, u, resp) ==
    IF resp.status # "ok" THEN None
    ELSE IF resp.body # "dict" THEN None
    ELSE [k |-> "reading",
          source |-> "openweathermap",
          mainK |-> resp.mainK,
          temp |-> resp.temp,
          feels_like |-> resp.feels_like,
          humidity |-> resp.humidity,
          pressure |-> resp.pressure,
          weatherK |-> resp.weatherK,
          speed |-> resp.speed,
          visibility |-> resp.visibility]

EmptyRecord == [k |-> "empty"]

MaxSecond == 1

\* datetime.now(), to the second the timestamp shows, counted from the first
\* formatting of a record
Seconds == 0..MaxSecond

\* WeatherDataProcessor.format_current_weather, called at second now of the
\* wall clock
FormatCurrentWeather(w, now) ==
    IF w.k = "none" THEN EmptyRecord
    ELSE
      LET main(f) == IF w.mainK = "dict" THEN w[f] ELSE Absent
          temp == Get(main("temp"), Num(0))
          feels == Get(main("feels_like"), Num(0))
          pres == Get(main("pressure"), Num(0))
          speed == Get(w.speed, Num(0))
          vis == Get(w.visibility, Num(0))
          raises == \/ w.mainK = "null"
                    \/ w.weatherK \in {"empty", "null"}
                    \/ ~IsNum(temp) \/ ~IsNum(feels) \/ ~IsNum(pres)
                    \/ ~IsNum(speed) \/ ~IsNum(vis)
      IN  IF raises THEN EmptyRecord
          ELSE [k |-> "record",
                temperature |-> Round(temp.v),
                feels_like |-> Round(feels.v),
                humidity |-> Get(main("humidity"), Num(0)),
                pressure |-> Round(pres.v),
                wind_speed |-> Round1(speed.v),
                visibility |-> RoundDiv(vis.v * 10, 1000 * Den) * (Den \div 10),
                timestamp |-> now,
                source |-> w.source]

\* a get_current_weather that does not return after the primary answered
GetCurrentWeatherAsksBoth(c, u) ==
    /\ phase = "idle"
    /\ \E vr \in VcCurrentResponses(u), wr \in OwmCurrentResponses :
         LET vc == GetVcCurrentWeather(c, u, vr)
         IN  /\ result' = IF vc.k # "none" THEN vc ELSE GetOwmCurrentWeather(c, u, wr)
             /\ owmResp' = wr
             /\ requests' = <<VcRequest("current", c, u), OwmRequest("current", c, u)>>
             /\ vcResp' = vr
    /\ phase' = "fetched"
    /\ op' = "current"
    /\ city' = c
    /\ units' = u
    /\ formatted' = NotCalled
    /\ UNCHANGED <<days, geoResp, hashOrder>>
    /\ UNCHANGED <<iconVars, repeatVars, appVars>>

\* WorkingWeatherService.get_current_weather
GetCurrentWeather(c, u) ==
    /\ phase = "idle"
    /\ \E vr \in VcCurrentResponses(u) :
         LET vc == GetVcCurrentWeather(c, u, vr)
         IN  IF vc.k # "none"
             THEN /\ result' = vc
                  /\ owmResp' = NoResp
                  /\ requests' = <<VcRequest("current", c, u)>>
                  /\ vcResp' = vr
             ELSE \E wr \in OwmCurrentResponses :
                  /\ result' = GetOwmCurrentWeather(c, u, wr)
                  /\ owmResp' = wr
                  /\ requests' = <<VcRequest("current", c, u), OwmRequest("current", c, u)>>
                  /\ vcResp' = vr
    /\ phase' = "fetched"
    /\ op' = "current"
    /\ city' = c
    /\ units' = u
    /\ formatted' = NotCalled
    /\ UNCHANGED <<days, geoResp, hashOrder>>
    /\ UNCHANGED <<iconVars, repeatVars, appVars>>

\* FinalWeatherApp._get_weather_thread: the reading, when there is one, is formatted
FormatCurrent ==
    /\ phase = "fetched"
    /\ op = "current"
    /\ result.k # "none"
    /\ formatted' = FormatCurrentWeather(result, 0)
    /\ phase' = "formatted"
    /\ UNCHANGED <<op, city, units, days, vcResp, owmResp, geoResp, requests, result, hashOrder>>
    /\ UNCHANGED <<iconVars, repeatVars, appVars>>

-----------------------------------------------------------------------------
(* Forecast *)

SecondsPerDay == 86400
MaxVcDays == 2
MaxSamples == 3
MaxDayCount == 2

\* description strings of the payloads
Descriptions == {"light rain", "clear sky"}

\* calendar date (day number) of an epoch timestamp, local zone taken as UTC
Date(dt) == dt \div SecondsPerDay

\* every sequence over S of length 0..n
SeqsUpTo(S, n) == UNION {[1..m -> S] : m \in 0..n}

VcDay(dt, tmin, tmax, pp) ==
    [datetime |-> dt, temp |-> Num(8 * Den), tempmin |-> tmin, tempmax |-> tmax,
     humidity |-> Num(802000), pressure |-> Num(1013 * Den),
     conditions |-> "light rain", windspeed |-> Num(34600), precipprob |-> pp]

\* days a provider reports: tempmin <= tempmax when both are given
VcReadableDays ==
    {VcDay(Num(1), tmin, tmax, Num(40 * Den)) :
        tmin \in {Absent, Null, Num(-70000)},
        tmax \in {Absent, Num(-50000), Num(125000)}}
    \cup {VcDay(Num(1), Num(55000), tmax, Num(40 * Den)) : tmax \in {Absent, Num(125000)}}
    \cup {VcDay(Num(2), Num(55000), Num(125000), pp) :
            pp \in {Absent, Num(100 * Den), Num(876000)}}

\* a day _get_vc_forecast cannot read: precipprob is null
VcUnreadableDays ==
    {VcDay(Num(1), Num(55000), Num(125000), Null)}

VcForecastBodies ==
    {[status |-> "ok", daysK |-> "absent", days |-> <<>>]}
    \cup {[status |-> "ok", daysK |-> "list", days |-> ds] :
            ds \in SeqsUpTo(VcReadableDays, MaxVcDays)}
    \cup {[status |-> "ok", daysK |-> "list", days |-> <<d>>] : d \in VcUnreadableDays}

VcForecastResponses == FailedResponses \cup VcForecastBodies

Sample(dt, temp, hum, pres, desc, speed, pop) ==
    [dt |-> dt, mainK |-> "dict", temp |-> temp, humidity |-> hum, pressure |-> pres,
     weatherK |-> "list", description |-> desc, speed |-> speed, pop |-> pop]

SampleA(dt) == Sample(dt, Num(105000), Num(80 * Den), Num(1013 * Den), "light rain", Num(34600), Num(2000))
SampleB(dt) == Sample(dt, Num(16 * Den), Num(65 * Den), Num(1008 * Den), "clear sky", Num(51500), Absent)
SampleC(dt) == Sample(dt, Num(-35000), Num(90 * Den), Num(1020 * Den), "light rain", Num(163000), Num(Den))

\* three-hourly samples of /forecast: two times of day on the first date
OwmReadableSamples ==
    {SampleA(Num(0)), SampleB(Num(0)), SampleC(Num(75600)),
     SampleA(Num(SecondsPerDay)), SampleB(Num(2 * SecondsPerDay))}

\* samples with a missing part
OwmIncompleteSamples ==
    {SampleA(Absent),
     [SampleB(Num(SecondsPerDay)) EXCEPT !.mainK = "absent"]}

OwmSamples == OwmReadableSamples \cup OwmIncompleteSamples

OwmForecastBodies ==
    {[status |-> "ok", body |-> b, listK |-> "absent", list |-> <<>>] : b \in {"list", "dict"}}
    \cup {[status |-> "ok", body |-> "dict", listK |-> "list", list |-> l] :
            l \in SeqsUpTo(OwmSamples, MaxSamples)}

OwmForecastResponses == FailedResponses \cup OwmForecastBodies

GeoResponses ==
    FailedResponses
    \cup {[status |-> "ok", matches |-> <<>>],
          [status |-> "ok", matches |-> <<[lat |-> Num(515000), lon |-> Num(-1300)]>>],
          [status |-> "ok", matches |-> <<[lat |-> Absent, lon |-> Absent]>>]}

GeoRequest(c) ==
    [provider |-> "openweathermap", endpoint |-> "geocode", city |-> c, units |-> "none"]

OwmCoordRequest(endpoint, coords, u) ==
    [provider |-> "openweathermap", endpoint |-> endpoint,
     lat |-> coords.lat, lon |-> coords.lon, units |-> u]

\* WorkingWeatherService._get_city_coordinates
GetCityCoordinates(c, resp) ==
    IF resp.status # "ok" THEN None
    ELSE IF resp.matches = <<>> THEN None
    ELSE IF resp.matches[1].lat.k = "absent" \/ resp.matches[1].lon.k = "absent" THEN None
    ELSE [k |-> "coords", lat |-> resp.matches[1].lat, lon |-> resp.matches[1].lon]

\* WorkingWeatherService._get_vc_forecast
GetVcForecast(c, n, u, resp) ==
    IF resp.status # "ok" THEN None
    ELSE IF resp.daysK = "null" THEN None
    ELSE
      LET ds == IF resp.daysK = "list" THEN resp.days ELSE <<>>
          unreadable(day) == \/ ~IsNum(day.datetime)
                             \/ ~IsNum(Get(day.precipprob, Num(0)))
          item(day) ==
              [dt |-> Num(day.datetime.v * SecondsPerDay),
               mainK |-> "dict",
               temp |-> Get(day.temp, Num(0)),
               temp_min |-> Get(day.tempmin, Num(0)),
               temp_max |-> Get(day.tempmax, Num(0)),
               humidity |-> Get(day.humidity, Num(0)),
               pressure |-> IF Truthy(day.pressure)
                            THEN Num(TimesInHgToHPa(day.pressure.v))
                            ELSE Num(0),
               weatherK |-> "list",
               description |-> day.conditions,
               speed |-> Get(day.windspeed, Num(0)),
               pop |-> Num(Get(day.precipprob, Num(0)).v \div 100)]
      IN  IF \E i \in 1..Len(ds) : unreadable(ds[i]) THEN None
          ELSE [k |-> "forecast",
                source |-> "visual_crossing",
                listK |-> "list",
                list |-> [i \in 1..Len(ds) |-> item(ds[i])]]

\* WorkingWeatherService._get_owm_extended_forecast, after the coordinates
GetOwmExtendedForecast(c, u, resp) ==
    IF resp.status # "ok" THEN None
    ELSE IF resp.body # "dict" THEN None
    ELSE [k |-> "forecast",
          source |-> "openweathermap",
          listK |-> resp.listK,
          list |-> resp.list]

\* the dates with the one that appeared last in front
RECURSIVE DatesNewestFirst(_, _)
DatesNewestFirst(list, i) ==
    IF i = 0 THEN <<>>
    ELSE LET prev == DatesNewestFirst(list, i - 1)
             date == Date(list[i].dt.v)
         IN  IF date \in Range(prev) THEN prev ELSE <<date>> \o prev

\* dates of list[1..i] in order of first appearance (insertion order of daily_data)
RECURSIVE DatesUpTo(_, _)
DatesUpTo(list, i) ==
    IF i = 0 THEN <<>>
    ELSE LET prev == DatesUpTo(list, i - 1)
             date == Date(list[i].dt.v)
         IN  IF date \in Range(prev) THEN prev ELSE Append(prev, date)

RECURSIVE Distinct(_)
Distinct(s) ==
    IF s = <<>> THEN <<>>
    ELSE LET r == Distinct(SubSeq(s, 1, Len(s) - 1))
         IN  IF s[Len(s)] \in Range(r) THEN r ELSE Append(r, s[Len(s)])

\* grouping that drops an item equal to one already in the group
DayItemsDeduplicated(list, date) ==
    Distinct(SelectSeq(list, LAMBDA it : Date(it.dt.v) = date))

\* daily_data[date]: the items of that date, in list order
DayItems(list, date) == SelectSeq(list, LAMBDA it : Date(it.dt.v) = date)

Count(descs, d) == Cardinality({i \in 1..Len(descs) : descs[i] = d})

\* max(set(descriptions), key=descriptions.count): the first description of
\* highest count in the iteration order of the set, which is the order of the
\* process's string hashes
MostFrequent(descs, order) ==
    LET best == {d \in Range(descs) : \A e \in Range(descs) : Count(descs, d) >= Count(descs, e)}
        pos(d) == CHOOSE i \in 1..Len(order) : order[i] = d
    IN  CHOOSE d \in best : \A e \in best : pos(d) <= pos(e)

\* the dictionary appended for one item of a Visual Crossing list
VcDayRecord(item) ==
    [date |-> Date(item.dt.v),
     min_temp |-> Round(item.temp_min.v),
     max_temp |-> Round(item.temp_max.v),
     description |-> item.description,
     humidity |-> item.humidity,
     wind_speed |-> Round1(item.speed.v),
     pressure |-> Round(item.pressure.v),
     pop |-> Round(Get(item.pop, Num(0)).v * 100)]

VcItemRaises(item) ==
    \/ ~IsNum(item.dt)
    \/ item.mainK # "dict"
    \/ ~IsNum(item.temp_min) \/ ~IsNum(item.temp_max)
    \/ item.weatherK # "list"
    \/ ~IsNum(item.speed) \/ ~IsNum(item.pressure)
    \/ ~IsNum(Get(item.pop, Num(0)))

\* the dictionary appended for the items of one date of an OpenWeatherMap list
OwmDayRecord(date, items, order) ==
    LET n == Len(items)
        temps == [i \in 1..n |-> items[i].temp.v]
        descs == [i \in 1..n |-> items[i].description]
    IN  [date |-> date,
         min_temp |-> Round(MinOf(temps)),
         max_temp |-> Round(MaxOf(temps)),
         description |-> MostFrequent(descs, order),
         humidity |-> Num(RoundMean(Sum([i \in 1..n |-> items[i].humidity.v]), n)),
         wind_speed |-> RoundMean1(Sum([i \in 1..n |-> items[i].speed.v]), n),
         pressure |-> RoundMean(Sum([i \in 1..n |-> items[i].pressure.v]), n),
         pop |-> RoundMean(Sum([i \in 1..n |-> Get(items[i].pop, Num(0)).v]) * 100, n)]

OwmItemRaises(item) ==
    \/ item.mainK # "dict"
    \/ ~IsNum(item.temp) \/ ~IsNum(item.humidity) \/ ~IsNum(item.pressure)
    \/ item.weatherK # "list"
    \/ ~IsNum(item.speed)
    \/ ~IsNum(Get(item.pop, Num(0)))

\* WeatherDataProcessor.format_forecast_data; order is the iteration order of
\* sets of strings in this process
FormatForecastData(fd, d, order) ==
    IF fd.k = "none" THEN <<>>
    ELSE IF fd.listK = "null" THEN <<>>
    ELSE
      LET list == IF fd.listK = "list" THEN fd.list ELSE <<>>
      IN  IF fd.source = "visual_crossing"
          THEN LET items == SubSeq(list, 1, Min(d, Len(list)))
               IN  IF \E i \in 1..Len(items) : VcItemRaises(items[i]) THEN <<>>
                   ELSE [i \in 1..Len(items) |-> VcDayRecord(items[i])]
          ELSE IF \E i \in 1..Len(list) : ~IsNum(list[i].dt) THEN <<>>
          ELSE LET all == DatesUpTo(list, Len(list))
                   dates == SubSeq(all, 1, Min(d, Len(all)))
                   group(j) == DayItems(list, dates[j])
               IN  IF \E j \in 1..Len(dates) :
                          \E i \in 1..Len(group(j)) : OwmItemRaises(group(j)[i])
                   THEN <<>>
                   ELSE [j \in 1..Len(dates) |-> OwmDayRecord(dates[j], group(j), order)]

\* WorkingWeatherService.get_10day_forecast
GetTenDayForecast(c, u) ==
    /\ phase = "idle"
    /\ \E vr \in VcForecastResponses :
         LET vc == GetVcForecast(c, 10, u, vr)
         IN  /\ vcResp' = vr
             /\ IF vc.k # "none"
                THEN /\ result' = vc
                     /\ geoResp' = NoResp
                     /\ owmResp' = NoResp
                     /\ requests' = <<VcRequest("forecast", c, u)>>
                ELSE \E gr \in GeoResponses :
                     LET coords == GetCityCoordinates(c, gr)
                     IN  /\ geoResp' = gr
                         /\ IF coords.k = "none"
                            THEN /\ result' = None
                                 /\ owmResp' = NoResp
                                 /\ requests' = <<VcRequest("forecast", c, u), GeoRequest(c)>>
                            ELSE \E wr \in OwmForecastResponses :
                                 /\ result' = GetOwmExtendedForecast(c, u, wr)
                                 /\ owmResp' = wr
                                 /\ requests' = <<VcRequest("forecast", c, u), GeoRequest(c),
                                                  OwmCoordRequest("forecast", coords, u)>>
    /\ phase' = "fetched"
    /\ op' = "forecast"
    /\ city' = c
    /\ units' = u
    /\ formatted' = NotCalled
    /\ UNCHANGED <<days, hashOrder>>
    /\ UNCHANGED <<iconVars, repeatVars, appVars>>

\* format_forecast_data(forecast_data, days) on the forecast the service returned
FormatForecast(d) ==
    /\ phase = "fetched"
    /\ op = "forecast"
    /\ result.k # "none"
    /\ days' = d
    /\ formatted' = FormatForecastData(result, d, hashOrder)
    /\ phase' = "formatted"
    /\ UNCHANGED <<op, city, units, vcResp, owmResp, geoResp, requests, result, hashOrder>>
    /\ UNCHANGED <<iconVars, repeatVars, appVars>>

-----------------------------------------------------------------------------
(* Alerts *)

MaxVcAlerts == 2
WindAlertThreshold == 15

Str(t) == [k |-> "str", s |-> t]
AbsentText == [k |-> "absent", s |-> ""]
NullText == [k |-> "null", s |-> ""]

\* dict.get(key, default) of a text entry: the default replaces a missing key
\* only, null stays
GetText(x, d) == IF x.k = "absent" THEN Str(d) ELSE x

\* str.lower() of one character
LowerChar(c) ==
    CASE c = "A" -> "a" [] c = "B" -> "b" [] c = "C" -> "c" [] c = "D" -> "d"
      [] c = "E" -> "e" [] c = "F" -> "f" [] c = "G" -> "g" [] c = "H" -> "h"
      [] c = "I" -> "i" [] c = "J" -> "j" [] c = "K" -> "k" [] c = "L" -> "l"
      [] c = "M" -> "m" [] c = "N" -> "n" [] c = "O" -> "o" [] c = "P" -> "p"
      [] c = "Q" -> "q" [] c = "R" -> "r" [] c = "S" -> "s" [] c = "T" -> "t"
      [] c = "U" -> "u" [] c = "V" -> "v" [] c = "W" -> "w" [] c = "X" -> "x"
      [] c = "Y" -> "y" [] c = "Z" -> "z"
      [] OTHER -> c

\* str.lower(): character by character
RECURSIVE Lower(_)
Lower(t) ==
    IF t = "" THEN ""
    ELSE LowerChar(SubSeq(t, 1, 1)) \o Lower(SubSeq(t, 2, Len(t)))

\* keyword in text: keyword occurs in text at some position
Contains(text, keyword) ==
    \E i \in 1..(Len(text) - Len(keyword) + 1) :
        SubSeq(text, i, i + Len(keyword) - 1) = keyword

\* an exception left the try block; list holds the alerts appended before it
RaisedWith(l) == [k |-> "raised", list |-> l]
Raised == RaisedWith(<<>>)
ListOf(l) == [k |-> "list", list |-> l]

\* HTTP 200 bodies of /weather by coordinates
OwmConditionBodies ==
    {[status |-> "ok", weatherK |-> w, main |-> AbsentText, description |-> AbsentText,
      speed |-> sp] : w \in {"absent", "empty"}, sp \in {Absent, Num(20 * Den)}}
    \cup
    {[status |-> "ok", weatherK |-> "list", main |-> m.main, description |-> m.description,
      speed |-> sp] :
        m \in {[main |-> Str("Thunderstorm"), description |-> Str("thunderstorm with rain")],
               [main |-> Str("Tornado"), description |-> Str("tornado")],
               [main |-> Str("Severe Thunderstorm"), description |-> Str("thunderstorm with hail")],
               [main |-> Str("Rain"), description |-> Str("light rain")],
               [main |-> AbsentText, description |-> Str("light rain")]},
        sp \in {Absent, Null, Num(WindAlertThreshold * Den), Num(151000)}}

OwmConditionResponses == FailedResponses \cup OwmConditionBodies

VcAlertEntries ==
    {[event |-> Str("Flood Watch"), description |-> Str("Flooding possible"),
      severity |-> Str("Moderate")],
     [event |-> Str("Cyclone Warning"), description |-> Str("Cyclone approaching"),
      severity |-> Str("Extreme")],
     [event |-> AbsentText, description |-> AbsentText, severity |-> AbsentText],
     [event |-> Str("Heat Advisory"), description |-> NullText, severity |-> NullText]}

VcAlertBodies ==
    {[status |-> "ok", alertsK |-> a, alerts |-> <<>>] : a \in {"absent", "null"}}
    \cup {[status |-> "ok", alertsK |-> "list", alerts |-> l] :
            l \in SeqsUpTo(VcAlertEntries, MaxVcAlerts)}

VcAlertResponses == FailedResponses \cup VcAlertBodies

VcAlertRequest(c) ==
    [provider |-> "visual_crossing", endpoint |-> "alerts", city |-> c, units |-> "none"]

\* the try block of WorkingWeatherService._get_owm_alerts
OwmAlertsTry(resp) ==
    IF resp.status # "ok" THEN Raised
    ELSE IF resp.weatherK # "list" THEN ListOf(<<>>)
    ELSE IF resp.main.k # "str" \/ resp.description.k # "str" THEN Raised
    ELSE
      LET main_weather == Lower(resp.main.s)
          severe == IF \E condition \in {"thunderstorm", "tornado"} :
                          Contains(main_weather, condition)
                    THEN <<[event |-> Str("Severe Thunderstorm Warning"),
                            description |-> Str("Severe weather detected: " \o resp.description.s),
                            severity |-> Str("Severe"),
                            source |-> "OpenWeatherMap Analysis"]>>
                    ELSE <<>>
          wind_speed == Get(resp.speed, Num(0))
      IN  IF ~IsNum(wind_speed) THEN RaisedWith(severe)
          ELSE IF wind_speed.v > WindAlertThreshold * Den
          THEN ListOf(Append(severe,
                   [event |-> Str("High Wind Warning"),
                    description |-> [k |-> "str", s |-> "Strong winds detected: {wind_speed} m/s",
                                     wind_speed |-> wind_speed.v],
                    severity |-> Str("Moderate"),
                    source |-> "OpenWeatherMap Analysis"]))
          ELSE ListOf(severe)

\* an except clause that returns the alerts collected so far
AlertsAfterErrorKeepsPartial(r) == ListOf(r.list)

\* the except clause of _get_owm_alerts and _get_vc_alerts: return []
AlertsAfterError(r) == ListOf(<<>>)

\* WorkingWeatherService._get_owm_alerts
GetOwmAlerts(coords, resp) ==
    LET r == OwmAlertsTry(resp)
    IN  IF r.k = "raised" THEN AlertsAfterError(r) ELSE r

\* the try block of WorkingWeatherService._get_vc_alerts
VcAlertsTry(resp) ==
    IF resp.status # "ok" THEN Raised
    ELSE IF resp.alertsK = "null" THEN Raised
    ELSE
      LET va == IF resp.alertsK = "list" THEN resp.alerts ELSE <<>>
      IN  ListOf([i \in 1..Len(va) |->
                    [event |-> GetText(va[i].event, "Weather Alert"),
                     description |-> GetText(va[i].description, "Weather alert in effect"),
                     severity |-> GetText(va[i].severity, "Unknown"),
                     source |-> "Visual Crossing"]])

\* WorkingWeatherService._get_vc_alerts
GetVcAlerts(c, resp) ==
    LET r == VcAlertsTry(resp)
    IN  IF r.k = "raised" THEN AlertsAfterError(r) ELSE r

\* a second list that is taken only when the first brought nothing
ExtendWhenEmpty(alerts, more) == IF alerts = <<>> THEN more ELSE alerts

\* alerts.extend(more)
Extend(alerts, more) == alerts \o more

\* WorkingWeatherService.get_weather_alerts
GetWeatherAlerts(c) ==
    /\ phase = "idle"
    /\ \E gr \in GeoResponses :
         LET coords == GetCityCoordinates(c, gr)
         IN  /\ geoResp' = gr
             /\ IF coords.k = "none"
                THEN /\ result' = ListOf(<<>>)
                     /\ owmResp' = NoResp
                     /\ vcResp' = NoResp
                     /\ requests' = <<GeoRequest(c)>>
                ELSE \E wr \in OwmConditionResponses, vr \in VcAlertResponses :
                     LET owm_alerts == GetOwmAlerts(coords, wr)
                         vc_alerts == GetVcAlerts(c, vr)
                     IN  /\ result' = ListOf(Extend(Extend(<<>>, owm_alerts.list),
                                                     vc_alerts.list))
                         /\ owmResp' = wr
                         /\ vcResp' = vr
                         /\ requests' = <<GeoRequest(c),
                                          OwmCoordRequest("current", coords, "none"),
                                          VcAlertRequest(c)>>
    /\ phase' = "fetched"
    /\ op' = "alerts"
    /\ city' = c
    /\ formatted' = NotCalled
    /\ UNCHANGED <<units, days, hashOrder>>
    /\ UNCHANGED <<iconVars, repeatVars, appVars>>

\* a classification that looks for 'moderate' and 'minor' first
GetAlertIconWarningFirst(severity) ==
    LET severity_lower == Lower(severity)
    IN  IF Contains(severity_lower, "moderate") \/ Contains(severity_lower, "minor")
        THEN "warning sign"
        ELSE IF Contains(severity_lower, "severe") \/ Contains(severity_lower, "extreme")
        THEN "police car light"
        ELSE "high voltage"

\* WeatherDataProcessor._get_alert_icon; the icons by their glyph names
GetAlertIcon(severity) ==
    LET severity_lower == Lower(severity)
    IN  IF Contains(severity_lower, "severe") \/ Contains(severity_lower, "extreme")
        THEN "police car light"
        ELSE IF Contains(severity_lower, "moderate") \/ Contains(severity_lower, "minor")
        THEN "warning sign"
        ELSE "high voltage"

\* WeatherDataProcessor.format_weather_alerts: the alerts of the service carry
\* 'event', 'description', 'severity' and 'source'; None has no lower()
FormatWeatherAlerts(alerts) ==
    IF \E i \in 1..Len(alerts) : alerts[i].severity.k # "str" THEN Raised
    ELSE ListOf([i \in 1..Len(alerts) |->
                   [title |-> alerts[i].event,
                    description |-> alerts[i].description,
                    severity |-> alerts[i].severity,
                    source |-> alerts[i].source,
                    icon |-> GetAlertIcon(alerts[i].severity.s)]])

\* FinalWeatherApp._get_alerts_thread: the alerts returned are formatted
FormatAlerts ==
    /\ phase = "fetched"
    /\ op = "alerts"
    /\ formatted' = FormatWeatherAlerts(result.list)
    /\ phase' = "formatted"
    /\ UNCHANGED <<op, city, units, days, vcResp, owmResp, geoResp, requests, result, hashOrder>>
    /\ UNCHANGED <<iconVars, repeatVars, appVars>>

-----------------------------------------------------------------------------
(* City search *)

MaxLocations == 6
GeocodingLimit == 5

Queries == {"London", "Pu"}

SearchRequest(q) ==
    [provider |-> "openweathermap", endpoint |-> "geocode", city |-> q, units |-> "none",
     limit |-> GeocodingLimit]

Location(name, country, state, lat, lon) ==
    [k |-> "dict", name |-> name, country |-> country, state |-> state, lat |-> lat, lon |-> lon]

\* location objects of a geocoding response
Locations ==
    {Location(Str("London"), Str("GB"), Str("England"), Num(515073), Num(-1276)),
     Location(Str("Pune"), Str("IN"), AbsentText, Num(185204), Absent)}

\* an element of the response that is not an object
NotAnObject == [k |-> "str"]

\* HTTP 200 bodies of /geo/1.0/direct: a list of locations, a list with an
\* element that is no object, or no list at all
SearchBodies ==
    {[status |-> "ok", body |-> "list", locations |-> l] :
        l \in SeqsUpTo(Locations, MaxLocations)}
    \cup {[status |-> "ok", body |-> "list", locations |-> Append(l, NotAnObject)] :
            l \in SeqsUpTo(Locations, 1)}
    \cup {[status |-> "ok", body |-> b, locations |-> <<>>] : b \in {"dict", "null"}}

SearchResponses == FailedResponses \cup SearchBodies

\* location.get('lat'): None for a missing key
GetOrNone(x) == IF x.k = "absent" THEN Null ELSE x

\* the dictionary appended for one location
CityCandidate(location) ==
    [name |-> GetText(location.name, ""),
     country |-> GetText(location.country, ""),
     state |-> GetText(location.state, ""),
     lat |-> GetOrNone(location.lat),
     lon |-> GetOrNone(location.lon)]

\* the try block of WorkingWeatherService.search_cities: iterating a
\* non-empty dictionary yields its keys, strings, which have no get()
SearchCitiesTry(resp) ==
    IF resp.status # "ok" THEN Raised
    ELSE IF resp.body # "list" THEN Raised
    ELSE LET readable == {i \in 1..Len(resp.locations) :
                             \A h \in 1..i : resp.locations[h].k = "dict"}
             n == Cardinality(readable)
             cities == [i \in 1..n |-> CityCandidate(resp.locations[i])]
         IN  IF n < Len(resp.locations) THEN RaisedWith(cities) ELSE ListOf(cities)

\* WorkingWeatherService.search_cities
SearchCities(q) ==
    /\ phase = "idle"
    /\ \E gr \in SearchResponses :
         LET r == SearchCitiesTry(gr)
         IN  /\ geoResp' = gr
             /\ result' = IF r.k = "raised" THEN ListOf(<<>>) ELSE r
    /\ requests' = <<SearchRequest(q)>>
    /\ phase' = "fetched"
    /\ op' = "search"
    /\ city' = q
    /\ formatted' = NotCalled
    /\ UNCHANGED <<units, days, vcResp, owmResp, hashOrder>>
    /\ UNCHANGED <<iconVars, repeatVars, appVars>>

-----------------------------------------------------------------------------
(* Weather icons *)

MaxFragments == 3

NoIcon == "none"

\* icon_map, in the order its keys are written; the icons by their glyph names
IconMap ==
    <<[key |-> "clear", icon |-> "sun"],
      [key |-> "sunny", icon |-> "sun"],
      [key |-> "partly cloudy", icon |-> "sun behind cloud"],
      [key |-> "few clouds", icon |-> "sun behind small cloud"],
      [key |-> "scattered clouds", icon |-> "sun behind cloud"],
      [key |-> "broken clouds", icon |-> "cloud"],
      [key |-> "overcast", icon |-> "cloud"],
      [key |-> "cloudy", icon |-> "cloud"],
      [key |-> "light rain", icon |-> "sun behind rain cloud"],
      [key |-> "moderate rain", icon |-> "cloud with rain"],
      [key |-> "heavy rain", icon |-> "cloud with lightning and rain"],
      [key |-> "rain", icon |-> "cloud with rain"],
      [key |-> "thunderstorm", icon |-> "cloud with lightning and rain"],
      [key |-> "snow", icon |-> "snowflake"],
      [key |-> "sleet", icon |-> "cloud with snow"],
      [key |-> "mist", icon |-> "fog"],
      [key |-> "fog", icon |-> "fog"],
      [key |-> "haze", icon |-> "fog"],
      [key |-> "drizzle", icon |-> "sun behind rain cloud"],
      [key |-> "shower", icon |-> "sun behind rain cloud"]>>

\* the icon returned when the loop ends without a match
DefaultIcon == "sun behind small cloud"

\* the loop over icon_map.items() from entry i on
RECURSIVE IconFrom(_, _)
IconFrom(description_lower, i) ==
    IF i > Len(IconMap) THEN DefaultIcon
    ELSE IF Contains(description_lower, IconMap[i].key) THEN IconMap[i].icon
    ELSE IconFrom(description_lower, i + 1)

\* a lookup that compares the description as it was written
GetWeatherIconAsWritten(d) == IconFrom(d, 1)

\* WeatherDataProcessor.get_weather_icon
GetWeatherIcon(d) == IconFrom(Lower(d), 1)

\* pieces of condition descriptions
Fragments ==
    {"light rain", "rain", "Heavy", "Thunderstorm", "with Hail", "Clear", "few", "clouds"}

RECURSIVE Join(_)
Join(s) ==
    IF s = <<>> THEN ""
    ELSE IF Len(s) = 1 THEN s[1]
    ELSE s[1] \o " " \o Join(Tail(s))

\* descriptions of up to MaxFragments pieces, the empty one included
IconDescriptions == {Join(s) : s \in SeqsUpTo(Fragments, MaxFragments)}

\* icon = self.data_processor.get_weather_icon(data['description'])
LookUpIcon ==
    /\ phase = "idle"
    /\ \E d \in IconDescriptions :
         /\ description' = d
         /\ icon' = GetWeatherIcon(d)
    /\ phase' = "formatted"
    /\ op' = "icon"
    /\ UNCHANGED <<city, units, days, vcResp, owmResp, geoResp, requests, result, formatted,
                   hashOrder>>
    /\ UNCHANGED <<repeatVars, appVars>>

\* pieces of severity labels
SeverityFragments == {"Severe", "EXTREME", "moderate", "Minor", "Unknown", "Warning"}

\* severity labels of up to MaxFragments pieces, the empty one included
Severities == {Join(s) : s \in SeqsUpTo(SeverityFragments, MaxFragments)}

\* WeatherDataProcessor._get_alert_icon(severity), on a severity label
LookUpAlertIcon ==
    /\ phase = "idle"
    /\ \E severity \in Severities :
         /\ description' = severity
         /\ icon' = GetAlertIcon(severity)
    /\ phase' = "formatted"
    /\ op' = "alert_icon"
    /\ UNCHANGED <<city, units, days, vcResp, owmResp, geoResp, requests, result, formatted,
                   hashOrder>>
    /\ UNCHANGED <<repeatVars, appVars>>

-----------------------------------------------------------------------------
(* The application window (final_weather_app.py).  The handlers of the      *)
(* buttons and the callbacks of root.after run on the UI thread, one at a   *)
(* time; every action that passes its input check starts a worker thread.   *)
(* A worker's service call is taken by its outcome.                         *)

MaxActions == 2

\* saves written in a run
MaxSaves == 1

Kinds == {"weather", "forecast", "alerts", "search"}

\* what the user may have typed into an entry
EntryTexts == {"", "  ", "London", " Pune "}

Whitespace == {" ", "\t"}

\* str.strip()
RECURSIVE Strip(_)
Strip(t) ==
    IF t = "" THEN ""
    ELSE IF SubSeq(t, 1, 1) \in Whitespace THEN Strip(SubSeq(t, 2, Len(t)))
    ELSE IF SubSeq(t, Len(t), Len(t)) \in Whitespace THEN Strip(SubSeq(t, 1, Len(t) - 1))
    ELSE t

\* the tab an action's result is displayed in
TabOf(kind) == IF kind = "weather" THEN "current" ELSE kind

NoContent == [req |-> 0, arg |-> "", units |-> "none", outcome |-> "none"]

\* nothing has been saved
NoSnapshot == [city |-> "", units |-> "none", current_weather |-> NoContent,
               forecast_data |-> NoContent, alerts_data |-> NoContent]

\* the unit system a worker of this kind reads from units_var as its first
\* statement (taken with the start of the thread); the alerts and the search
\* workers read none
UnitsRead(kind) == IF kind \in {"weather", "forecast"} THEN unitsVar ELSE "none"

Status(msg, arg) == [msg |-> msg, arg |-> arg]

Dialog(kind, title) == [kind |-> kind, title |-> title]

\* outcomes of the service call and of the formatting of its result: "failed"
\* is a service that returned None or a formatter that returned nothing,
\* "raised" an exception
Outcomes(kind) ==
    CASE kind \in {"weather", "forecast"} -> {"data", "failed"}
      [] kind = "alerts" -> {"alerts", "no_alerts", "raised"}
      [] kind = "search" -> {"cities", "no_cities"}

\* the data a worker obtained, as the display shows it
Content(i) ==
    [req |-> i, arg |-> threads[i].arg, units |-> threads[i].units,
     outcome |-> threads[i].outcome]

\* a display that keeps the result of the newer request
ApplyNewest(cb) ==
    LET shows == cb.fn = "display" /\ cb.content.req > tabs[cb.tab].req
    IN  /\ tabs' = IF shows THEN [tabs EXCEPT ![cb.tab] = cb.content] ELSE tabs
        /\ selectedTab' = IF shows THEN cb.tab ELSE selectedTab
        /\ statusText' = IF cb.fn = "status" THEN cb.text ELSE statusText
        /\ progressShown' = IF cb.fn = "hide_progress" THEN FALSE ELSE progressShown
        /\ dialogs' = IF cb.fn = "showerror" THEN Append(dialogs, Dialog("error", "Error"))
                      ELSE dialogs
        /\ apiStatus' = IF cb.fn = "api_status" THEN cb.label ELSE apiStatus

\* the effect of a scheduled callback on the display surface: _display_...
\* replaces the content of its tab and selects it, status_var.set, hide_progress,
\* messagebox.showerror, api_status.config
Apply(cb) ==
    /\ tabs' = IF cb.fn = "display" THEN [tabs EXCEPT ![cb.tab] = cb.content] ELSE tabs
    /\ selectedTab' = IF cb.fn = "display" THEN cb.tab ELSE selectedTab
    /\ statusText' = IF cb.fn = "status" THEN cb.text ELSE statusText
    /\ progressShown' = IF cb.fn = "hide_progress" THEN FALSE ELSE progressShown
    /\ dialogs' = IF cb.fn = "showerror" THEN Append(dialogs, Dialog("error", "Error"))
                  ELSE dialogs
    /\ apiStatus' = IF cb.fn = "api_status" THEN cb.label ELSE apiStatus

\* a worker that calls the function itself instead of scheduling it
RootAfterRunsNow(cb) ==
    /\ Apply(cb)
    /\ UNCHANGED afterQueue

\* self.root.after(0, callback), called by a worker thread
RootAfter(cb) ==
    /\ afterQueue' = Append(afterQueue, cb)
    /\ UNCHANGED surfaceVars

\* number of actions the user has triggered: the started ones and the rejected ones
Triggered ==
    Len(threads)
    + Cardinality({i \in 1..Len(dialogs) :
                      /\ dialogs[i].kind = "warning"
                      /\ dialogs[i].title # "Please enter a city name first"})

\* number of times Save has been clicked
Saves ==
    Cardinality({i \in 1..Len(dialogs) :
                    dialogs[i].title \in {"Please enter a city name first", "Success",
                                          "Save error"}})

\* a handler that starts its worker whatever the entry holds
SubmitUnchecked(kind, text, warning, msg) ==
    /\ statusText' = Status(msg, Strip(text))
    /\ progressShown' = TRUE
    /\ threads' = Append(threads, [kind |-> kind, arg |-> Strip(text), pc |-> "call",
                                   units |-> UnitsRead(kind), outcome |-> "none",
                                   scheduled |-> <<>>, ran |-> <<>>])
    /\ UNCHANGED dialogs

\* the common body of get_weather_data, get_10day_forecast, get_weather_alerts
\* and search_cities, on the stripped text of the entry.  The warning is the
\* handler's last statement: the handler returns when the dialog is closed.
Submit(kind, text, warning, msg) ==
    LET input == Strip(text)
    IN  IF input = ""
        THEN /\ dialogs' = Append(dialogs, Dialog("warning", warning))
             /\ UNCHANGED <<statusText, progressShown, threads>>
        ELSE /\ statusText' = Status(msg, input)
             /\ progressShown' = TRUE
             /\ threads' = Append(threads, [kind |-> kind, arg |-> input, pc |-> "call",
                                            units |-> UnitsRead(kind), outcome |-> "none",
                                   scheduled |-> <<>>, ran |-> <<>>])
             /\ UNCHANGED dialogs

\* FinalWeatherApp.get_weather_data, on the text the entry holds
OnGetWeatherData(text) ==
    /\ Triggered < MaxActions
    /\ cityEntry' = text
    /\ Submit("weather", text, "Please enter a city name", "getting_weather")
    /\ UNCHANGED <<searchEntry, apiStatus, tabs, selectedTab, stored, validator, afterQueue,
                   serviceCalls>>
    /\ UNCHANGED <<serviceVars, iconVars, repeatVars, saveVars>>

\* FinalWeatherApp.get_10day_forecast
OnGetForecast(text) ==
    /\ Triggered < MaxActions
    /\ cityEntry' = text
    /\ Submit("forecast", text, "Please enter a city name", "getting_forecast")
    /\ UNCHANGED <<searchEntry, apiStatus, tabs, selectedTab, stored, validator, afterQueue,
                   serviceCalls>>
    /\ UNCHANGED <<serviceVars, iconVars, repeatVars, saveVars>>

\* FinalWeatherApp.get_weather_alerts
OnGetAlerts(text) ==
    /\ Triggered < MaxActions
    /\ cityEntry' = text
    /\ Submit("alerts", text, "Please enter a city name", "getting_alerts")
    /\ UNCHANGED <<searchEntry, apiStatus, tabs, selectedTab, stored, validator, afterQueue,
                   serviceCalls>>
    /\ UNCHANGED <<serviceVars, iconVars, repeatVars, saveVars>>

\* FinalWeatherApp.search_cities
OnSearchCities(text) ==
    /\ Triggered < MaxActions
    /\ searchEntry' = text
    /\ Submit("search", text, "Please enter a search term", "searching")
    /\ UNCHANGED <<cityEntry, apiStatus, tabs, selectedTab, stored, validator, afterQueue,
                   serviceCalls>>
    /\ UNCHANGED <<serviceVars, iconVars, repeatVars, saveVars>>

\* the data a worker obtained with outcome o, as the display shows it
ContentWith(i, o) ==
    [req |-> i, arg |-> threads[i].arg, units |-> threads[i].units, outcome |-> o]

\* a worker that assigns the outcome of the formatter before it has looked at it
WorkerCallStoresFirst(i) ==
    /\ threads[i].pc = "call"
    /\ serviceCalls' = serviceCalls + 1
    /\ \E o \in Outcomes(threads[i].kind) :
         \/ /\ o \in {"data", "alerts", "no_alerts"}
            /\ stored' = [stored EXCEPT ![TabOf(threads[i].kind)] = ContentWith(i, o)]
            /\ threads' = [threads EXCEPT ![i].outcome = o, ![i].pc = "display"]
            /\ UNCHANGED <<surfaceVars, afterQueue>>
         \/ /\ o \in {"cities", "no_cities"}
            /\ RootAfter([fn |-> "display", req |-> i, tab |-> TabOf(threads[i].kind),
                          content |-> ContentWith(i, o)])
            /\ threads' = [threads EXCEPT ![i].outcome = o, ![i].pc = "status",
                                          ![i].scheduled = Append(@, "display")]
            /\ UNCHANGED stored
         \/ /\ o \in {"failed", "raised"}
            /\ RootAfter([fn |-> "showerror", req |-> i])
            /\ threads' = [threads EXCEPT ![i].outcome = o, ![i].pc = "finally",
                                          ![i].scheduled = Append(@, "showerror")]
            /\ stored' = IF o = "failed"
                         THEN [stored EXCEPT ![TabOf(threads[i].kind)] = NoContent]
                         ELSE stored
    /\ UNCHANGED <<cityEntry, searchEntry, validator>>
    /\ UNCHANGED <<serviceVars, iconVars, repeatVars, saveVars>>

\* a worker thread up to its first access to the application's state: the
\* service call and the formatting of its result (nothing of the
\* application is read or written meanwhile, units_var aside), then, by
\* outcome, the assignment to current_weather_data, forecast_data or
\* alerts_data; root.after with the search results; root.after with the
\* error dialog
WorkerCall(i) ==
    /\ threads[i].pc = "call"
    /\ serviceCalls' = serviceCalls + 1
    /\ \E o \in Outcomes(threads[i].kind) :
         \/ /\ o \in {"data", "alerts", "no_alerts"}
            /\ stored' = [stored EXCEPT ![TabOf(threads[i].kind)] = ContentWith(i, o)]
            /\ threads' = [threads EXCEPT ![i].outcome = o, ![i].pc = "display"]
            /\ UNCHANGED <<surfaceVars, afterQueue>>
         \/ /\ o \in {"cities", "no_cities"}
            /\ RootAfter([fn |-> "display", req |-> i, tab |-> TabOf(threads[i].kind),
                          content |-> ContentWith(i, o)])
            /\ threads' = [threads EXCEPT ![i].outcome = o, ![i].pc = "status",
                                          ![i].scheduled = Append(@, "display")]
            /\ UNCHANGED stored
         \/ /\ o \in {"failed", "raised"}
            /\ RootAfter([fn |-> "showerror", req |-> i])
            /\ threads' = [threads EXCEPT ![i].outcome = o, ![i].pc = "finally",
                                          ![i].scheduled = Append(@, "showerror")]
            /\ UNCHANGED stored
    /\ UNCHANGED <<cityEntry, searchEntry, validator>>
    /\ UNCHANGED <<serviceVars, iconVars, repeatVars, saveVars>>

\* self.root.after(0, self._display_..., data, ...)
WorkerDisplay(i) ==
    /\ threads[i].pc = "display"
    /\ RootAfter([fn |-> "display", req |-> i, tab |-> TabOf(threads[i].kind),
                  content |-> Content(i)])
    /\ threads' = [threads EXCEPT ![i].pc = "status", ![i].scheduled = Append(@, "display")]
    /\ UNCHANGED <<cityEntry, searchEntry, stored, validator, serviceCalls>>
    /\ UNCHANGED <<serviceVars, iconVars, repeatVars, saveVars>>

\* self.root.after(0, lambda: self.status_var.set(...))
WorkerStatus(i) ==
    /\ threads[i].pc = "status"
    /\ RootAfter([fn |-> "status", req |-> i,
                  text |-> Status(threads[i].outcome, threads[i].arg)])
    /\ threads' = [threads EXCEPT ![i].pc = "finally", ![i].scheduled = Append(@, "status")]
    /\ UNCHANGED <<cityEntry, searchEntry, stored, validator, serviceCalls>>
    /\ UNCHANGED <<serviceVars, iconVars, repeatVars, saveVars>>

\* a worker that returns without its finally clause
WorkerFinallySkipped(i) ==
    /\ threads[i].pc = "finally"
    /\ threads' = [threads EXCEPT ![i].pc = "done"]
    /\ UNCHANGED <<cityEntry, searchEntry, surfaceVars, stored, validator, afterQueue,
                   serviceCalls>>
    /\ UNCHANGED <<serviceVars, iconVars, repeatVars, saveVars>>

\* finally: self.root.after(0, self.hide_progress)
WorkerFinally(i) ==
    /\ threads[i].pc = "finally"
    /\ RootAfter([fn |-> "hide_progress", req |-> i])
    /\ threads' = [threads EXCEPT ![i].pc = "done",
                                  ![i].scheduled = Append(@, "hide_progress")]
    /\ UNCHANGED <<cityEntry, searchEntry, stored, validator, serviceCalls>>
    /\ UNCHANGED <<serviceVars, iconVars, repeatVars, saveVars>>

\* FinalWeatherApp.validate_api_keys, run by the thread started in __init__:
\* root.after with the notice, then the two calls of the service; root.after
\* with their result
ValidatorStep ==
    /\ \/ /\ validator = "start"
          /\ RootAfter([fn |-> "api_status", req |-> 0, label |-> "validating"])
          /\ validator' = "report"
          /\ serviceCalls' = serviceCalls + 2
       \/ /\ validator = "report"
          /\ \E label \in {"ready", "error"} :
                RootAfter([fn |-> "api_status", req |-> 0, label |-> label])
          /\ validator' = "done"
          /\ UNCHANGED serviceCalls
    /\ UNCHANGED <<cityEntry, searchEntry, stored, threads>>
    /\ UNCHANGED <<serviceVars, iconVars, repeatVars, saveVars>>

\* the main loop runs the callback that was scheduled first
RunCallback ==
    /\ afterQueue # <<>>
    /\ Apply(Head(afterQueue))
    /\ afterQueue' = Tail(afterQueue)
    /\ threads' = IF Head(afterQueue).req = 0 THEN threads
                  ELSE [threads EXCEPT ![Head(afterQueue).req].ran =
                                           Append(@, Head(afterQueue).fn)]
    /\ UNCHANGED <<cityEntry, searchEntry, stored, validator, serviceCalls>>
    /\ UNCHANGED <<serviceVars, iconVars, repeatVars, saveVars>>

\* what the user may type over the city the entry holds
CityEdits == {"London"}

\* the user types a city into the city entry
EditCity(text) ==
    /\ cityEntry' = text
    /\ cityEntry # text
    /\ UNCHANGED <<searchEntry, surfaceVars, stored, threads, validator, afterQueue,
                   serviceCalls, saveVars>>
    /\ UNCHANGED <<serviceVars, iconVars, repeatVars>>

\* the user selects the other radio button of the unit system
SwitchUnits(u) ==
    /\ unitsVar' = u
    /\ unitsVar # u
    /\ UNCHANGED <<cityEntry, searchEntry, surfaceVars, stored, threads, validator, afterQueue,
                   serviceCalls, snapshot>>
    /\ UNCHANGED <<serviceVars, iconVars, repeatVars>>

\* FinalWeatherApp.save_weather_data: the document holds the stripped text of
\* the city entry, the three stored record sets and the selected unit system;
\* creating the directory or the file may fail, and then nothing is written
SaveWeatherData ==
    /\ Saves < MaxSaves
    /\ LET input == Strip(cityEntry)
       IN  IF input = ""
           THEN /\ dialogs' = Append(dialogs,
                                     Dialog("warning", "Please enter a city name first"))
                /\ UNCHANGED <<statusText, snapshot>>
           ELSE \E written \in BOOLEAN :
                   IF written
                   THEN /\ snapshot' = [city |-> input,
                                        units |-> unitsVar,
                                        current_weather |-> stored["current"],
                                        forecast_data |-> stored["forecast"],
                                        alerts_data |-> stored["alerts"]]
                        /\ dialogs' = Append(dialogs, Dialog("info", "Success"))
                        /\ statusText' = Status("saved", input)
                   ELSE /\ dialogs' = Append(dialogs, Dialog("error", "Save error"))
                        /\ UNCHANGED <<statusText, snapshot>>
    /\ UNCHANGED <<cityEntry, searchEntry, progressShown, apiStatus, tabs, selectedTab, stored,
                   threads, validator, afterQueue, serviceCalls, unitsVar>>
    /\ UNCHANGED <<serviceVars, iconVars, repeatVars>>

\* a second call of the formatter that produced `formatted`, on the same
\* record: format_current_weather, format_forecast_data or
\* format_weather_alerts (static methods, called on the value the service
\* returned)
FormatAgain ==
    /\ phase = "formatted"
    /\ op \in {"current", "forecast", "alerts"}
    /\ \E now \in Seconds :
         formattedAgain' =
             CASE op = "current" -> FormatCurrentWeather(result, now)
               [] op = "forecast" -> FormatForecastData(result, days, hashOrder)
               [] op = "alerts" -> FormatWeatherAlerts(result.list)
    /\ phase' = "reformatted"
    /\ UNCHANGED <<op, city, units, days, vcResp, owmResp, geoResp, requests, result, formatted,
                   hashOrder>>
    /\ UNCHANGED <<iconVars, appVars>>

\* the caller is done with the result; the service keeps nothing of a call
Return ==
    /\ phase \in {"fetched", "formatted", "reformatted"}
    /\ phase' = "idle"
    /\ op' = "none"
    /\ city' = ""
    /\ units' = "metric"
    /\ days' = 0
    /\ vcResp' = NoResp
    /\ owmResp' = NoResp
    /\ geoResp' = NoResp
    /\ requests' = <<>>
    /\ result' = None
    /\ formatted' = NotCalled
    /\ formattedAgain' = NotCalled
    /\ description' = ""
    /\ icon' = NoIcon
    /\ UNCHANGED hashOrder
    /\ UNCHANGED appVars

\* orders in which a set of the description strings can be iterated
HashOrders == {o \in [1..Cardinality(Descriptions) -> Descriptions] : Range(o) = Descriptions}

Init ==
    /\ phase = "idle"
    /\ op = "none"
    /\ city = ""
    /\ units = "metric"
    /\ days = 0
    /\ vcResp = NoResp
    /\ owmResp = NoResp
    /\ geoResp = NoResp
    /\ requests = <<>>
    /\ result = None
    /\ formatted = NotCalled
    /\ formattedAgain = NotCalled
    /\ hashOrder \in HashOrders
    /\ description = ""
    /\ icon = NoIcon
    /\ cityEntry = "New York"
    /\ searchEntry = ""
    /\ statusText = Status("ready", "")
    /\ progressShown = FALSE
    /\ apiStatus = "checking"
    /\ dialogs = <<>>
    /\ tabs = [t \in {"current", "forecast", "alerts", "search"} |-> NoContent]
    /\ selectedTab = "current"
    /\ stored = [t \in {"current", "forecast", "alerts"} |-> NoContent]
    /\ threads = <<>>
    /\ validator = "start"
    /\ afterQueue = <<>>
    /\ serviceCalls = 0
    /\ unitsVar = "metric"
    /\ snapshot = NoSnapshot

NextCurrent ==
    \/ \E c \in Cities, u \in Units : GetCurrentWeather(c, u)
    \/ FormatCurrent
    \/ Return

SpecCurrent == Init /\ [][NextCurrent]_vars

NextForecast ==
    \/ \E c \in Cities, u \in Units : GetTenDayForecast(c, u)
    \/ \E d \in 0..MaxDayCount : FormatForecast(d)
    \/ Return

SpecForecast == Init /\ [][NextForecast]_vars

NextAlerts ==
    \/ \E c \in Cities : GetWeatherAlerts(c)
    \/ FormatAlerts
    \/ LookUpAlertIcon
    \/ Return

SpecAlerts == Init /\ [][NextAlerts]_vars

NextIcon ==
    \/ LookUpIcon
    \/ Return

SpecIcon == Init /\ [][NextIcon]_vars

NextSearch ==
    \/ \E q \in Queries : SearchCities(q)
    \/ Return

SpecSearch == Init /\ [][NextSearch]_vars

\* steps of the UI thread: the handlers of the user's actions and the main loop
UiStep ==
    \/ \E text \in EntryTexts :
          \/ OnGetWeatherData(text)
          \/ OnGetForecast(text)
          \/ OnGetAlerts(text)
          \/ OnSearchCities(text)
    \/ RunCallback

\* steps of the threads started by the application
WorkerStep ==
    \/ \E i \in 1..Len(threads) :
          \/ WorkerCall(i)
          \/ WorkerDisplay(i)
          \/ WorkerStatus(i)
          \/ WorkerFinally(i)
    \/ ValidatorStep

NextApp == UiStep \/ WorkerStep

\* the application never looks at the order of string hashes
InitApp == Init /\ hashOrder = <<"light rain", "clear sky">>

SpecApp == InitApp /\ [][NextApp]_vars

\* steps of the worker threads of the actions
ActionStep ==
    \E i \in 1..Len(threads) :
        \/ WorkerCall(i)
        \/ WorkerDisplay(i)
        \/ WorkerStatus(i)
        \/ WorkerFinally(i)

\* the user edits the city, switches the units, fetches the three record sets
\* for the city in the entry and saves, while the workers and the main loop run
NextSave ==
    \/ \E text \in CityEdits : EditCity(text)
    \/ \E u \in Units : SwitchUnits(u)
    \/ OnGetWeatherData(cityEntry)
    \/ OnGetForecast(cityEntry)
    \/ OnGetAlerts(cityEntry)
    \/ SaveWeatherData
    \/ RunCallback
    \/ ActionStep

SpecSave == InitApp /\ [][NextSave]_vars

\* the steps of the worker of the i-th action
Worker(i) ==
    /\ i \in 1..Len(threads)
    /\ \/ WorkerCall(i)
       \/ WorkerDisplay(i)
       \/ WorkerStatus(i)
       \/ WorkerFinally(i)

\* the four actions, their workers and the main loop
NextActions ==
    \/ \E text \in EntryTexts :
          \/ OnGetWeatherData(text)
          \/ OnGetForecast(text)
          \/ OnGetAlerts(text)
          \/ OnSearchCities(text)
    \/ RunCallback
    \/ \E i \in 1..MaxActions : Worker(i)

\* Every started worker thread keeps running: it is a thread of the operating
\* system, its provider calls return or time out (timeout=10 on every request
\* of the service), and it never waits for another thread.  The main loop
\* runs every callback handed to root.after while the window is open.  The
\* user is under no obligation to click.
SpecActions ==
    /\ InitApp
    /\ [][NextActions]_vars
    /\ \A i \in 1..MaxActions : WF_vars(Worker(i))
    /\ WF_vars(RunCallback)

Next == NextCurrent \/ NextForecast \/ NextAlerts \/ NextIcon \/ NextSearch

Spec == Init /\ [][Next]_vars

\* the service and the processor, with a formatter called a second time
NextRepeat == Next \/ FormatAgain

SpecRepeat == Init /\ [][NextRepeat]_vars

-----------------------------------------------------------------------------
(* Properties of get_current_weather *)

CurrentReturned == phase \in {"fetched", "formatted"} /\ op = "current"

\* the primary call ended in a network error or a non-success status
VcTransportFailed == vcResp.status \in {"network_error", "http_error"}

\* a successful primary response that carries no current-conditions data
VcEmptyPayload == vcResp.status = "ok" /\ vcResp.cc \in {"absent", "null"}

\* a successful primary response whose current conditions cannot be read
VcUnusablePayload ==
    /\ vcResp.status = "ok"
    /\ vcResp.cc = "dict"
    /\ (vcResp.temp.k = "null" \/ vcResp.visibility.k = "null")

OwmFailed ==
    \/ owmResp.status \in {"network_error", "http_error"}
    \/ (owmResp.status = "ok" /\ owmResp.body # "dict")

\* C1: whenever the primary call ends in a network error, a non-success
\* status or an empty payload, get_current_weather asks the secondary
\* provider with the same city and units, and it returns None only when both
\* providers fail.
C1_FallbackOnPrimaryFailure ==
    CurrentReturned =>
        /\ (VcTransportFailed \/ VcEmptyPayload)
              => OwmRequest("current", city, units) \in Range(requests)
        /\ result.k = "none"
              => (VcTransportFailed \/ VcEmptyPayload \/ VcUnusablePayload) /\ OwmFailed

\* C2: the source tag names the provider that supplied the data, the
\* temperature is the one that provider returned, and the formatted record
\* carries the same tag and the rounded temperature.
C2_SourceTagCarriedThrough ==
    (phase = "formatted" /\ op = "current") =>
        /\ result.source = (IF owmResp.status = "not_requested"
                            THEN "visual_crossing" ELSE "openweathermap")
        /\ (owmResp.status = "ok" /\ owmResp.mainK = "dict" /\ IsNum(owmResp.temp))
              => result.temp = owmResp.temp
        /\ (vcResp.status = "ok" /\ owmResp.status = "not_requested" /\ IsNum(vcResp.temp))
              => result.temp = vcResp.temp
        /\ formatted.k = "record"
        /\ formatted.source = result.source
        /\ formatted.temperature = Round(Get(result.temp, Num(0)).v)

\* the provider's pressure number expressed in hectopascals
ToHPa(x, unit) == IF unit = "inHg" THEN TimesInHgToHPa(x) ELSE x

\* C3: the pressure of the returned reading is the provider's pressure in
\* hectopascals: converted from inches of mercury exactly when the provider
\* value is in inches of mercury, passed through when it is already in hPa.
C3_PressureInHectopascals ==
    (CurrentReturned /\ result.k = "reading") =>
        /\ (result.source = "visual_crossing" /\ IsNum(vcResp.pressure))
              => result.pressure.v = ToHPa(vcResp.pressure.v, vcResp.punit)
        /\ (result.source = "openweathermap" /\ IsNum(owmResp.pressure))
              => result.pressure.v = ToHPa(owmResp.pressure.v, "hPa")

-----------------------------------------------------------------------------
(* Properties of format_forecast_data *)

ForecastFormatted == phase = "formatted" /\ op = "forecast"

OnPrimaryPath == result.k = "forecast" /\ result.source = "visual_crossing"
OnSecondaryPath == result.k = "forecast" /\ result.source = "openweathermap"

\* the list of the payload, as .get('list', []) reads it
PayloadList == IF result.listK = "list" THEN result.list ELSE <<>>

\* indices of the samples of the payload that fall on a calendar date
SamplesOn(date) ==
    {i \in 1..Len(PayloadList) : IsNum(PayloadList[i].dt) /\ Date(PayloadList[i].dt.v) = date}

\* calendar dates for which the payload has samples
PayloadDates ==
    {Date(PayloadList[i].dt.v) : i \in {j \in 1..Len(PayloadList) : IsNum(PayloadList[j].dt)}}

\* number of days available in the payload
AvailableDays ==
    IF OnPrimaryPath THEN Len(PayloadList) ELSE Cardinality(PayloadDates)

\* C4: format_forecast_data(payload, d) returns min(d, days available in the
\* payload) days, on the primary and on the secondary path.
C4_ForecastLength ==
    ForecastFormatted => Len(formatted) = Min(days, AvailableDays)

\* C5: every forecast day has min_temp <= max_temp, on both paths.
C5_MinNotAboveMax ==
    ForecastFormatted =>
        \A j \in 1..Len(formatted) : formatted[j].min_temp <= formatted[j].max_temp

RECURSIVE SumOver(_, _)
SumOver(f, S) ==
    IF S = {} THEN 0
    ELSE LET x == CHOOSE y \in S : TRUE IN f[x] + SumOver(f, S \ {x})

TempAt == [i \in 1..Len(PayloadList) |-> PayloadList[i].temp.v]
HumidityAt == [i \in 1..Len(PayloadList) |-> PayloadList[i].humidity.v]
SpeedAt == [i \in 1..Len(PayloadList) |-> PayloadList[i].speed.v]
PressureAt == [i \in 1..Len(PayloadList) |-> PayloadList[i].pressure.v]
PopAt == [i \in 1..Len(PayloadList) |-> Get(PayloadList[i].pop, Num(0)).v]

\* C6: on the secondary path the output days have distinct dates, and each
\* day's min_temp and max_temp are the rounded minimum and maximum of the
\* temperatures of exactly the samples of its date, its humidity, wind speed,
\* pressure and pop the (rounded) arithmetic means over those samples.
C6_AggregatesOverTheDate ==
    (ForecastFormatted /\ OnSecondaryPath) =>
        /\ \A j1, j2 \in 1..Len(formatted) :
              formatted[j1].date = formatted[j2].date => j1 = j2
        /\ \A j \in 1..Len(formatted) :
              LET S == SamplesOn(formatted[j].date)
                  n == Cardinality(S)
              IN  /\ n > 0
                  /\ \E i \in S : /\ \A h \in S : TempAt[i] <= TempAt[h]
                                   /\ formatted[j].min_temp = Round(TempAt[i])
                  /\ \E i \in S : /\ \A h \in S : TempAt[i] >= TempAt[h]
                                   /\ formatted[j].max_temp = Round(TempAt[i])
                  /\ formatted[j].humidity = Num(RoundMean(SumOver(HumidityAt, S), n))
                  /\ formatted[j].wind_speed = RoundMean1(SumOver(SpeedAt, S), n)
                  /\ formatted[j].pressure = RoundMean(SumOver(PressureAt, S), n)
                  /\ formatted[j].pop = RoundMean(SumOver(PopAt, S) * 100, n)

\* a date with samples of different temperatures was aggregated, next to another date
C6_Witness ==
    /\ ForecastFormatted /\ OnSecondaryPath
    /\ Len(formatted) = 2
    /\ \E j \in 1..Len(formatted) :
          /\ Cardinality(SamplesOn(formatted[j].date)) = 2
          /\ formatted[j].min_temp < formatted[j].max_temp

\* |a|
Abs(a) == IF a < 0 THEN -a ELSE a

\* x, in Den units, is a whole percentage between 0 and 100
WholePercentage(x) == x % Den = 0 /\ 0 <= x /\ x <= 100 * Den

\* the percentage Visual Crossing gave for the j-th day of its response
VcPercentage(j) == Get(vcResp.days[j].precipprob, Num(0)).v

\* C21: the pop of every formatted forecast day is a whole percentage between
\* 0 and 100.  On the secondary path it is the whole number nearest to 100
\* times the mean of the fractional probabilities of the date's samples (a
\* sample without 'pop' counts as 0).  On the primary path it is the whole
\* number nearest to the provider's percentage, so a whole percentage of the
\* provider comes back unchanged (a day without 'precipprob' counts as 0).
C21_PopIsWholePercentage ==
    ForecastFormatted =>
        \A j \in 1..Len(formatted) :
            /\ WholePercentage(formatted[j].pop)
            /\ OnSecondaryPath =>
                  LET S == SamplesOn(formatted[j].date)
                      n == Cardinality(S)
                  IN  2 * Abs(formatted[j].pop * n - SumOver(PopAt, S) * 100) <= n * Den
            /\ OnPrimaryPath =>
                  /\ 2 * Abs(formatted[j].pop - VcPercentage(j)) <= Den
                  /\ WholePercentage(VcPercentage(j)) => formatted[j].pop = VcPercentage(j)

\* a forecast of the primary provider with a fractional percentage (87.6 gives 88)
C21_Witness ==
    /\ ForecastFormatted /\ OnPrimaryPath
    /\ \E j \in 1..Len(formatted) :
          /\ VcPercentage(j) = 876000
          /\ formatted[j].pop = 88 * Den

\* the description that occurs most often, the first encountered on a tie
FirstMostFrequent(descs) ==
    LET best == {d \in Range(descs) : \A e \in Range(descs) : Count(descs, d) >= Count(descs, e)}
        first(d) == CHOOSE i \in 1..Len(descs) : descs[i] = d /\ \A h \in 1..(i - 1) : descs[h] # d
    IN  CHOOSE d \in best : \A e \in best : first(d) <= first(e)

\* C7: on the secondary path each day's description is the most frequent one
\* among the date's samples, the first encountered when several tie.
C7_MostFrequentFirstEncountered ==
    (ForecastFormatted /\ OnSecondaryPath) =>
        \A j \in 1..Len(formatted) :
            formatted[j].description =
                FirstMostFrequent([i \in 1..Len(DayItems(PayloadList, formatted[j].date)) |->
                                     DayItems(PayloadList, formatted[j].date)[i].description])

\* the payload with its samples fed twice, and with sample i fed once more
FedTwice == [result EXCEPT !.list = PayloadList \o PayloadList]
FedOnceMore(i) == [result EXCEPT !.list = Append(PayloadList, PayloadList[i])]

SameMeans(a, b) ==
    /\ a.humidity = b.humidity
    /\ a.wind_speed = b.wind_speed
    /\ a.pressure = b.pressure
    /\ a.pop = b.pop

\* C8: duplicates are not deduplicated. Feeding every sample twice changes
\* neither min_temp/max_temp nor the means; feeding one sample once more
\* leaves min_temp/max_temp of its date and counts the copy in the means.
C8_DuplicatesCounted ==
    (ForecastFormatted /\ OnSecondaryPath /\ formatted # <<>>) =>
        /\ LET twice == FormatForecastData(FedTwice, days, hashOrder)
           IN  /\ Len(twice) = Len(formatted)
               /\ \A j \in 1..Len(formatted) :
                     /\ twice[j].min_temp = formatted[j].min_temp
                     /\ twice[j].max_temp = formatted[j].max_temp
                     /\ SameMeans(twice[j], formatted[j])
        /\ \A j \in 1..Len(formatted) : \A i \in SamplesOn(formatted[j].date) :
              LET more == FormatForecastData(FedOnceMore(i), days, hashOrder)
                  S == SamplesOn(formatted[j].date)
                  n == Cardinality(S) + 1
              IN  /\ Len(more) = Len(formatted)
                  /\ more[j].min_temp = formatted[j].min_temp
                  /\ more[j].max_temp = formatted[j].max_temp
                  /\ more[j].humidity = Num(RoundMean(SumOver(HumidityAt, S) + HumidityAt[i], n))
                  /\ more[j].wind_speed = RoundMean1(SumOver(SpeedAt, S) + SpeedAt[i], n)
                  /\ more[j].pressure = RoundMean(SumOver(PressureAt, S) + PressureAt[i], n)
                  /\ more[j].pop = RoundMean((SumOver(PopAt, S) + PopAt[i]) * 100, n)

\* a date with two different samples, where one more copy moves a mean
C8_Witness ==
    /\ ForecastFormatted /\ OnSecondaryPath /\ formatted # <<>>
    /\ \E j \in 1..Len(formatted) : \E i \in SamplesOn(formatted[j].date) :
          /\ Cardinality(SamplesOn(formatted[j].date)) >= 2
          /\ FormatForecastData(FedOnceMore(i), days, hashOrder)[j].pressure
                # formatted[j].pressure

-----------------------------------------------------------------------------
(* Properties of get_weather_alerts *)

AlertsReturned == phase = "fetched" /\ op = "alerts"

GeocodingFailed == geoResp.status \in {"network_error", "http_error"}

\* the sub-call was made and its request or the reading of its response failed
OwmAlertsErrored == owmResp.status # "not_requested" /\ OwmAlertsTry(owmResp).k = "raised"
VcAlertsErrored == vcResp.status # "not_requested" /\ VcAlertsTry(vcResp).k = "raised"

\* C9: get_weather_alerts always returns a list, never an error; the list is
\* empty when both provider sub-calls error, and when geocoding fails.
C9_AlertsNeverFail ==
    AlertsReturned =>
        /\ result.k = "list"
        /\ (OwmAlertsErrored /\ VcAlertsErrored) => result.list = <<>>
        /\ GeocodingFailed => result.list = <<>>

\* both provider sub-calls were made and errored, the second one after its
\* response arrived with a severe condition and an unreadable wind speed
C9_Witness ==
    /\ AlertsReturned
    /\ OwmAlertsErrored /\ VcAlertsErrored
    /\ owmResp.status = "ok" /\ owmResp.main = Str("Thunderstorm")
    /\ result = ListOf(<<>>)

\* C10: a request error in one sub-call takes away that sub-call's alerts
\* only: the other sub-calls are still made and the result holds every alert
\* of each sub-call that succeeded; the primary provider, asked by city name,
\* is still asked when geocoding fails.
C10_OtherSubcallsContinue ==
    AlertsReturned =>
        /\ GeocodingFailed => VcAlertRequest(city) \in Range(requests)
        /\ \A r \in Range(requests) : r.endpoint = "alerts" =>
              \A a \in Range(VcAlertsTry(vcResp).list) : a \in Range(result.list)
        /\ \A r \in Range(requests) : (r.endpoint = "current" /\ ~OwmAlertsErrored) =>
              \A a \in Range(OwmAlertsTry(owmResp).list) : a \in Range(result.list)

\* the city was resolved to coordinates
CoordinatesResolved == GetCityCoordinates(city, geoResp).k = "coords"

\* what the two sub-calls returned to get_weather_alerts
OwmAlertList == GetOwmAlerts(GetCityCoordinates(city, geoResp), owmResp).list
VcAlertList == GetVcAlerts(city, vcResp).list

\* C11: when the city resolves to coordinates, both providers are queried
\* once each, whatever the first of them returned, and the result is the
\* alerts derived from OpenWeatherMap followed by Visual Crossing's: its
\* length is the sum of the two lengths, every alert is there once, in order,
\* and carries the source tag of its provider.
C11_BothProvidersConcatenated ==
    (AlertsReturned /\ CoordinatesResolved) =>
        /\ requests = <<GeoRequest(city),
                        OwmCoordRequest("current", GetCityCoordinates(city, geoResp), "none"),
                        VcAlertRequest(city)>>
        /\ Len(result.list) = Len(OwmAlertList) + Len(VcAlertList)
        /\ \A i \in 1..Len(OwmAlertList) :
              /\ result.list[i] = OwmAlertList[i]
              /\ result.list[i].source = "OpenWeatherMap Analysis"
        /\ \A i \in 1..Len(VcAlertList) :
              /\ result.list[Len(OwmAlertList) + i] = VcAlertList[i]
              /\ result.list[Len(OwmAlertList) + i].source = "Visual Crossing"

\* both providers contributed, the derived alerts ahead of the native ones
C11_Witness ==
    /\ AlertsReturned /\ CoordinatesResolved
    /\ Len(OwmAlertList) = 2
    /\ Len(VcAlertList) = 2
    /\ Len(result.list) = 4

\* the wind speed of the response, as .get('wind', {}).get('speed', 0) reads it
ReportedWind == Get(owmResp.speed, Num(0))

\* the condition name of the response carries one of the severe keywords
SevereCondition ==
    /\ owmResp.weatherK = "list"
    /\ owmResp.main.k = "str"
    /\ \E keyword \in {"thunderstorm", "tornado"} : Contains(Lower(owmResp.main.s), keyword)

HasAlert(list, event) == \E i \in 1..Len(list) : list[i].event = Str(event)

\* C12: from a response of the secondary provider, the alert sub-call derives
\* the high-wind warning exactly when the reported wind speed is above 15
\* (not at 15), and the severe alert exactly when the condition text contains
\* 'thunderstorm' or 'tornado'; the wind warning does not depend on the
\* condition fields, which may be empty or absent.
C12_WindAndSevereIndependent ==
    (AlertsReturned /\ CoordinatesResolved /\ owmResp.status = "ok") =>
        /\ HasAlert(OwmAlertList, "High Wind Warning")
              <=> (IsNum(ReportedWind) /\ ReportedWind.v > WindAlertThreshold * Den)
        /\ HasAlert(OwmAlertList, "Severe Thunderstorm Warning") <=> SevereCondition

-----------------------------------------------------------------------------
(* Properties of get_weather_icon *)

IconLookedUp == phase = "formatted" /\ op = "icon"

\* keyword i of the table occurs in the description, letter case aside
KeywordIn(i, d) == Contains(Lower(d), IconMap[i].key)

IconOfKeyword(keyword) ==
    IconMap[CHOOSE i \in 1..Len(IconMap) : IconMap[i].key = keyword].icon

-----------------------------------------------------------------------------
(* Properties of the formatting functions *)

CurrentFormatted == phase = "formatted" /\ op = "current"
AlertsFormatted == phase = "formatted" /\ op = "alerts"

\* a number of the input, zero when it is missing or null
NumOrZero(x) == IF IsNum(x) THEN x.v ELSE 0

\* a text of the input, the empty string when it is missing or null
TextOrEmpty(x) == IF x.k = "str" THEN x.s ELSE ""

\* an entry of the reading's 'main' dictionary
MainEntry(f) == IF result.mainK = "dict" THEN result[f] ELSE Absent

\* C14: the formatting functions tolerate missing, null and empty input
\* fields: format_current_weather still returns the record, with zero for a
\* number that is not there and the present fields formatted; so does
\* format_forecast_data, which drops neither a day nor the whole forecast;
\* format_weather_alerts returns one formatted alert per alert, with the
\* empty string standing for a severity that is null.
C14_FormattersTolerateMissingFields ==
    /\ CurrentFormatted =>
          /\ formatted.k = "record"
          /\ formatted.temperature = Round(NumOrZero(MainEntry("temp")))
          /\ formatted.feels_like = Round(NumOrZero(MainEntry("feels_like")))
          /\ formatted.pressure = Round(NumOrZero(MainEntry("pressure")))
          /\ formatted.wind_speed = Round1(NumOrZero(result.speed))
          /\ formatted.source = result.source
    /\ ForecastFormatted =>
          /\ (PayloadList # <<>> /\ days > 0) => formatted # <<>>
          /\ OnPrimaryPath =>
                /\ Len(formatted) = Min(days, Len(PayloadList))
                /\ \A j \in 1..Len(formatted) :
                      /\ formatted[j].min_temp = Round(NumOrZero(PayloadList[j].temp_min))
                      /\ formatted[j].max_temp = Round(NumOrZero(PayloadList[j].temp_max))
    /\ AlertsFormatted =>
          /\ formatted.k = "list"
          /\ Len(formatted.list) = Len(result.list)
          /\ \A i \in 1..Len(result.list) :
                /\ formatted.list[i].title = result.list[i].event
                /\ formatted.list[i].source = result.list[i].source
                /\ formatted.list[i].icon = GetAlertIcon(TextOrEmpty(result.list[i].severity))

-----------------------------------------------------------------------------
(* Properties of _get_alert_icon *)

AlertIconLookedUp == phase = "formatted" /\ op = "alert_icon"

\* the label contains the word, letter case aside
Mentions(label, word) == Contains(Lower(label), word)

\* the icon the precedence of the severities gives a label
IconBySeverity(label) ==
    CASE Mentions(label, "severe") \/ Mentions(label, "extreme") -> "police car light"
      [] ~(Mentions(label, "severe") \/ Mentions(label, "extreme"))
            /\ (Mentions(label, "moderate") \/ Mentions(label, "minor")) -> "warning sign"
      [] OTHER -> "high voltage"

\* C23: _get_alert_icon gives the critical icon to every severity containing
\* 'severe' or 'extreme' in any letter case, also when 'moderate' or 'minor'
\* occurs too; otherwise the warning icon to one containing 'moderate' or
\* 'minor'; the generic icon to every other string, the empty string and
\* 'Unknown' among them.  Every alert format_weather_alerts returns carries
\* the icon of its own severity.
C23_AlertIconPrecedence ==
    /\ AlertIconLookedUp =>
          /\ icon = IconBySeverity(description)
          /\ description \in {"", "Unknown", "Warning Unknown"} => icon = "high voltage"
          /\ description \in {"Severe", "EXTREME", "moderate EXTREME", "Minor Severe Unknown"}
                => icon = "police car light"
          /\ description \in {"moderate", "Minor", "Unknown Minor"} => icon = "warning sign"
    /\ (AlertsFormatted /\ formatted.k = "list") =>
          /\ Len(formatted.list) = Len(result.list)
          /\ \A i \in 1..Len(formatted.list) :
                /\ formatted.list[i].severity = result.list[i].severity
                /\ formatted.list[i].icon = IconBySeverity(formatted.list[i].severity.s)

\* a label naming a lesser and a critical severity was classified as critical
C23_Witness ==
    /\ AlertIconLookedUp
    /\ description = "moderate EXTREME"
    /\ icon = "police car light"

-----------------------------------------------------------------------------
(* Rounding policy of the formatters *)

\* x, in Den units, is a whole number
Whole(x) == x % Den = 0

\* x, in Den units, has at most one decimal place
OneDecimal(x) == x % (Den \div 10) = 0

\* C22: in every record of format_current_weather and in every day of
\* format_forecast_data, on both provider paths, the temperatures, the
\* pressure and the humidity are whole numbers, the nearest to the values of
\* the normalized record, and the wind speed has one decimal place.
C22_RoundingPolicy ==
    /\ (CurrentFormatted /\ formatted.k = "record") =>
          /\ Whole(formatted.temperature)
          /\ 2 * Abs(formatted.temperature - NumOrZero(MainEntry("temp"))) <= Den
          /\ Whole(formatted.feels_like)
          /\ Whole(formatted.pressure)
          /\ Whole(NumOrZero(formatted.humidity))
          /\ OneDecimal(formatted.wind_speed)
    /\ ForecastFormatted =>
          \A j \in 1..Len(formatted) :
              /\ Whole(formatted[j].min_temp)
              /\ Whole(formatted[j].max_temp)
              /\ Whole(formatted[j].pressure)
              /\ Whole(NumOrZero(formatted[j].humidity))
              /\ OneDecimal(formatted[j].wind_speed)

\* the same without the humidity, which only the secondary forecast path rounds
AllButHumidityRounded ==
    /\ (CurrentFormatted /\ formatted.k = "record") =>
          /\ Whole(formatted.temperature)
          /\ Whole(formatted.feels_like)
          /\ Whole(formatted.pressure)
          /\ OneDecimal(formatted.wind_speed)
    /\ ForecastFormatted =>
          \A j \in 1..Len(formatted) :
              /\ Whole(formatted[j].min_temp)
              /\ Whole(formatted[j].max_temp)
              /\ Whole(formatted[j].pressure)
              /\ OneDecimal(formatted[j].wind_speed)
              /\ OnSecondaryPath => Whole(NumOrZero(formatted[j].humidity))

-----------------------------------------------------------------------------
(* Dates of the secondary path of format_forecast_data *)

\* position of the first sample of a date in the payload
FirstSampleOn(date) ==
    CHOOSE i \in SamplesOn(date) : \A h \in SamplesOn(date) : i <= h

\* dates whose first sample comes before position i
DatesBefore(i) ==
    {Date(PayloadList[h].dt.v) : h \in {g \in 1..(i - 1) : IsNum(PayloadList[g].dt)}}

\* dates of the formatted days
EmittedDates == {formatted[j].date : j \in 1..Len(formatted)}

\* the payload without the samples of the dates that were not emitted
EmittedOnly ==
    [result EXCEPT !.list = SelectSeq(PayloadList,
                                LAMBDA it : IsNum(it.dt) /\ Date(it.dt.v) \in EmittedDates)]

\* C30: on the secondary path no two formatted days have the same date; the
\* j-th day is that of the j-th date to appear in the sample list, so the days
\* follow the order of first appearance and at most `days` of them are
\* emitted; each day aggregates all the samples of its date (its humidity is
\* the mean over exactly those), and the days are the same as when the
\* samples of the other dates are left out of the payload.
C30_OneDayPerDateInOrder ==
    (ForecastFormatted /\ OnSecondaryPath) =>
        /\ Len(formatted) <= days
        /\ \A j1, j2 \in 1..Len(formatted) :
              j1 < j2 => /\ formatted[j1].date # formatted[j2].date
                         /\ FirstSampleOn(formatted[j1].date) < FirstSampleOn(formatted[j2].date)
        /\ \A j \in 1..Len(formatted) :
              /\ SamplesOn(formatted[j].date) # {}
              /\ Cardinality(DatesBefore(FirstSampleOn(formatted[j].date))) = j - 1
              /\ formatted[j].humidity.v * Cardinality(SamplesOn(formatted[j].date))
                    - SumOver(HumidityAt, SamplesOn(formatted[j].date))
                    \in (-Den * Cardinality(SamplesOn(formatted[j].date)))
                         ..(Den * Cardinality(SamplesOn(formatted[j].date)))
        /\ FormatForecastData(EmittedOnly, days, hashOrder) = formatted

\* the samples came newest date first and only the first date to appear was
\* asked for: its day is emitted, the samples of the other date are ignored
C30_Witness ==
    /\ ForecastFormatted /\ OnSecondaryPath
    /\ days = 1
    /\ Len(formatted) = 1
    /\ Len(PayloadList) = 3
    /\ formatted[1].date = Date(2 * SecondsPerDay)
    /\ Cardinality(SamplesOn(Date(2 * SecondsPerDay))) = 1
    /\ PayloadDates # {Date(2 * SecondsPerDay)}

-----------------------------------------------------------------------------
(* Determinism of the formatters *)

\* a formatter was called a second time on the record it had formatted
Reformatted == phase = "reformatted"

\* C24: a second call of format_current_weather, format_forecast_data or
\* format_weather_alerts on the same normalized record returns the same
\* display record as the first, whenever the two calls are made.
C24_FormattersDeterministic ==
    Reformatted => formattedAgain = formatted

\* the two results differ in the timestamp of format_current_weather at most
SameButTimestamp ==
    Reformatted =>
        \/ formattedAgain = formatted
        \/ /\ op = "current"
           /\ formatted.k = "record"
           /\ formattedAgain.k = "record"
           /\ [formattedAgain EXCEPT !.timestamp = formatted.timestamp] = formatted

-----------------------------------------------------------------------------
(* Properties of get_10day_forecast *)

ForecastReturned == phase \in {"fetched", "formatted"} /\ op = "forecast"

\* the primary call ended in a network error or a non-success status
VcForecastFailed == vcResp.status \in {"network_error", "http_error"}

\* a successful primary response with no forecast days
VcForecastEmpty == vcResp.status = "ok" /\ (vcResp.daysK # "list" \/ vcResp.days = <<>>)

\* a successful primary response with a day that cannot be read
VcForecastUnreadable ==
    /\ vcResp.status = "ok"
    /\ vcResp.daysK = "list"
    /\ \E i \in 1..Len(vcResp.days) : vcResp.days[i] \in VcUnreadableDays

\* the secondary provider was asked and gave no forecast
OwmForecastFailed ==
    /\ geoResp.status # "not_requested"
    /\ \/ GetCityCoordinates(city, geoResp).k = "none"
       \/ owmResp.status \in {"network_error", "http_error"}
       \/ (owmResp.status = "ok" /\ owmResp.body # "dict")

\* C15: get_10day_forecast turns to the secondary provider whenever the
\* primary fails or answers with no forecast days, so that a primary answer
\* of zero days is never what the request ends with, and it returns None only
\* when neither provider yields anything.
C15_ForecastFallbackOnEmpty ==
    ForecastReturned =>
        /\ (VcForecastFailed \/ VcForecastEmpty) => GeoRequest(city) \in Range(requests)
        /\ VcForecastEmpty => ~(result.k = "forecast" /\ result.source = "visual_crossing")
        /\ result.k = "none" =>
              /\ VcForecastFailed \/ VcForecastEmpty \/ VcForecastUnreadable
              /\ OwmForecastFailed

-----------------------------------------------------------------------------
(* Requests of one get_current_weather or get_10day_forecast call *)

WeatherReturned == phase \in {"fetched", "formatted"} /\ op \in {"current", "forecast"}

RequestsTo(provider) == {i \in 1..Len(requests) : requests[i].provider = provider}

\* what the primary provider's method returned to the call
PrimaryResult ==
    IF op = "current" THEN GetVcCurrentWeather(city, units, vcResp)
    ELSE GetVcForecast(city, 10, units, vcResp)

\* the primary provider is requested exactly once and first, the secondary
\* only after the primary yielded no result
PrimaryOnceAndFirst ==
    /\ Cardinality(RequestsTo("visual_crossing")) = 1
    /\ requests[1].provider = "visual_crossing"
    /\ RequestsTo("openweathermap") # {} => PrimaryResult.k = "none"
    /\ PrimaryResult.k # "none" =>
          /\ RequestsTo("openweathermap") = {}
          /\ result = PrimaryResult

\* C17 as stated: no retries within one call: the primary provider is
\* requested exactly once and first, the secondary provider at most once,
\* only after the primary yielded no result, and never when it succeeded.
C17_SecondaryRequestedAtMostOnce ==
    WeatherReturned =>
        /\ PrimaryOnceAndFirst
        /\ Cardinality(RequestsTo("openweathermap")) <= 1

\* C17, amended: the primary provider is requested exactly once and first,
\* the secondary only after the primary yielded no result and never when it
\* succeeded; no request is sent twice: get_current_weather sends the
\* secondary provider at most one request, get_10day_forecast one geocoding
\* request and, when the city was found, one forecast request after it.
C17_NoRequestRepeated ==
    WeatherReturned =>
        /\ PrimaryOnceAndFirst
        /\ \A i, j \in 1..Len(requests) : requests[i] = requests[j] => i = j
        /\ op = "current" => Cardinality(RequestsTo("openweathermap")) <= 1
        /\ op = "forecast" =>
              /\ \A i \in RequestsTo("openweathermap") :
                    requests[i].endpoint = (IF i = 2 THEN "geocode" ELSE "forecast")
              /\ Len(requests) <= 3
              /\ Len(requests) = 3 <=> (PrimaryResult.k = "none"
                                         /\ GetCityCoordinates(city, geoResp).k = "coords")

\* a forecast that came from the secondary provider after the primary failed
C17_Witness ==
    /\ WeatherReturned
    /\ op = "forecast"
    /\ PrimaryResult.k = "none"
    /\ Len(requests) = 3
    /\ result.k = "forecast"
    /\ result.source = "openweathermap"

-----------------------------------------------------------------------------
(* Properties of search_cities *)

SearchReturned == phase = "fetched" /\ op = "search"

\* the request failed or its response is not a list of objects
SearchFailed ==
    \/ geoResp.status \in {"network_error", "http_error"}
    \/ geoResp.body # "list"
    \/ \E i \in 1..Len(geoResp.locations) : geoResp.locations[i].k # "dict"

\* C20: search_cities issues exactly one geocoding request, returns an empty
\* list, without raising, when the request fails or the response is not a
\* list of location objects, and otherwise one candidate per location of the
\* response, in the response's order; it returns at most 5 candidates.
C20_SearchCities ==
    SearchReturned =>
        /\ requests = <<SearchRequest(city)>>
        /\ result.k = "list"
        /\ SearchFailed => result.list = <<>>
        /\ ~SearchFailed =>
              /\ Len(result.list) = Len(geoResp.locations)
              /\ \A i \in 1..Len(result.list) :
                    /\ result.list[i].name = geoResp.locations[i].name
                    /\ result.list[i].country = geoResp.locations[i].country
        /\ Len(result.list) <= GeocodingLimit

-----------------------------------------------------------------------------
(* Properties of the application window *)

\* a text of nothing but white space
Blank(text) == \A i \in 1..Len(text) : SubSeq(text, i, i) \in Whitespace

\* one of the four actions is triggered while its entry holds a blank text
BlankAction(warning) ==
    \E text \in EntryTexts :
        /\ Blank(text)
        /\ \/ warning = "Please enter a city name"
              /\ (OnGetWeatherData(text) \/ OnGetForecast(text) \/ OnGetAlerts(text))
           \/ warning = "Please enter a search term" /\ OnSearchCities(text)

\* C16: an action triggered on an empty or whitespace-only city (get weather,
\* get forecast, get alerts) or search query (search) opens the input warning
\* in that very step, starts no worker thread, makes no call of the service
\* (so no provider request), schedules nothing, and leaves the status text,
\* the progress indicator and the stored records as they were.
C16_BlankInputRejected ==
    [][\A warning \in {"Please enter a city name", "Please enter a search term"} :
          BlankAction(warning) =>
              /\ dialogs' = Append(dialogs, Dialog("warning", warning))
              /\ threads' = threads
              /\ serviceCalls' = serviceCalls
              /\ afterQueue' = afterQueue
              /\ statusText' = statusText
              /\ progressShown' = progressShown
              /\ stored' = stored]_vars

\* a blank city was rejected while the worker of an earlier action is still
\* waiting for its provider: status and progress are those of the earlier action
C16_Witness ==
    /\ Blank(cityEntry)
    /\ Len(threads) = 1
    /\ threads[1].pc = "call"
    /\ dialogs = <<Dialog("warning", "Please enter a city name")>>
    /\ statusText = Status("getting_forecast", "Pune")
    /\ progressShown
    /\ serviceCalls = 0

\* C18: every change of the display surface (the tabs and the selected tab,
\* the status text, the progress indicator, the API status label, the
\* dialogs) is made by a step of the UI thread, a handler or a callback of
\* root.after; the steps of the worker threads and of the validation thread
\* leave the surface as it is and at most schedule a callback.
C18_SurfaceUpdatedByUiThreadOnly ==
    [][/\ surfaceVars' # surfaceVars => UiStep
       /\ WorkerStep =>
             /\ surfaceVars' = surfaceVars
             /\ \/ afterQueue' = afterQueue
                \/ /\ afterQueue' # <<>>
                   /\ afterQueue = SubSeq(afterQueue', 1, Len(afterQueue') - 1)]_vars

\* the results of a worker and of the validation thread have reached the
\* display by way of the main loop
C18_Witness ==
    /\ \E i \in 1..Len(threads) :
          /\ threads[i].pc = "done"
          /\ tabs[TabOf(threads[i].kind)] = Content(i)
          /\ statusText = Status(threads[i].outcome, threads[i].arg)
    /\ apiStatus = "ready"
    /\ ~progressShown

\* the steps a thread takes, in order
PcRank(pc) ==
    CASE pc = "call" -> 0
      [] pc = "display" -> 1
      [] pc = "status" -> 2
      [] pc = "finally" -> 3
      [] pc = "done" -> 4

\* C19: actions are neither cancelled nor ordered.  No step takes a started
\* worker back or ends it early: a worker keeps its kind and city and only
\* moves forward through its own steps, whatever is triggered meanwhile.  A
\* scheduled callback is never dropped: the queue only grows at its end or
\* loses its head, and a display callback that runs replaces the content of
\* its tab even when the tab shows the result of a later request.
C19_NeitherOrderedNorCancelled ==
    [][/\ Len(threads') >= Len(threads)
       /\ \A i \in 1..Len(threads) :
             /\ threads'[i].kind = threads[i].kind
             /\ threads'[i].arg = threads[i].arg
             /\ PcRank(threads'[i].pc) >= PcRank(threads[i].pc)
             /\ threads'[i].pc = "done" /\ threads[i].pc # "done" => WorkerFinally(i)
       /\ \/ afterQueue' = afterQueue
          \/ afterQueue # <<>> /\ afterQueue' = Tail(afterQueue)
          \/ afterQueue' # <<>> /\ afterQueue = SubSeq(afterQueue', 1, Len(afterQueue') - 1)
       /\ (RunCallback /\ Head(afterQueue).fn = "display") =>
             tabs'[Head(afterQueue).tab] = Head(afterQueue).content]_vars

\* get-weather was triggered for one city and then for another, the response
\* of the first arrived last, both workers finished with data and all their
\* callbacks have run: the current-weather tab shows the data of the first,
\* superseded request
C19_StaleDisplay ==
    /\ Len(threads) = 2
    /\ \A i \in 1..2 : /\ threads[i].kind = "weather"
                        /\ threads[i].pc = "done"
                        /\ threads[i].outcome = "data"
    /\ threads[1].arg = "London"
    /\ threads[2].arg = "Pune"
    /\ afterQueue = <<>>
    /\ stored["current"] = Content(1)
    /\ tabs["current"] = Content(1)

-----------------------------------------------------------------------------
(* Stored records, tabs and progress indicator under concurrent actions *)

\* number of callbacks of worker i that are scheduled and have not run
Pending(i) == Cardinality({h \in 1..Len(afterQueue) : afterQueue[h].req = i})

\* every action of a kind has completed and all its callbacks have run
KindQuiet(kind) ==
    \A i \in 1..Len(threads) :
        threads[i].kind = kind => threads[i].pc = "done" /\ Pending(i) = 0

\* two record sets with the same data: fetched for the same city in the same
\* units with the same outcome, by whichever request
SameData(a, b) == a.arg = b.arg /\ a.units = b.units /\ a.outcome = b.outcome

\* C25: for each of get-weather, get-forecast and get-alerts: once every
\* action of the kind has completed and all its callbacks have run, the stored
\* record set of the kind (current_weather_data, forecast_data, alerts_data)
\* holds the data its tab shows.
C25_StoredIsDisplayed ==
    \A kind \in {"weather", "forecast", "alerts"} :
        KindQuiet(kind) => SameData(stored[TabOf(kind)], tabs[TabOf(kind)])

\* the worker of a started action has not returned yet
InFlight(i) == threads[i].pc # "done"

\* C26: the progress indicator is shown in every state in which the worker of
\* some started action has not returned yet.
C26_ProgressShownWhileInFlight ==
    (\E i \in 1..Len(threads) : InFlight(i)) => progressShown

\* a get-weather or get-forecast action whose service call or formatting
\* yielded nothing
Failing(i) ==
    /\ threads[i].kind \in {"weather", "forecast"}
    /\ threads'[i].outcome = "failed"

\* a step of the worker of action i or of one of its callbacks
ActsFor(i) ==
    \/ WorkerCall(i)
    \/ WorkerDisplay(i)
    \/ WorkerStatus(i)
    \/ WorkerFinally(i)
    \/ RunCallback /\ Head(afterQueue).req = i

\* C28: no step of a failing get-weather or get-forecast action, of its
\* worker or of its callbacks, changes a stored record set or the content of
\* a tab; a step of any action changes at most the stored record set and the
\* tab of its own kind; and the steps that belong to no action (the handlers,
\* the validation thread and its callbacks) change neither.
C28_FailureAndOtherKindsUntouched ==
    [][/\ \A i \in 1..Len(threads) :
             ActsFor(i) =>
                 /\ \A t \in DOMAIN tabs \ {TabOf(threads[i].kind)} : tabs'[t] = tabs[t]
                 /\ \A t \in DOMAIN stored \ {TabOf(threads[i].kind)} : stored'[t] = stored[t]
                 /\ Failing(i) => tabs' = tabs /\ stored' = stored
       /\ (\A i \in 1..Len(threads) : ~ActsFor(i)) => tabs' = tabs /\ stored' = stored]_vars

\* get-weather succeeded for one city and then failed for another: the error
\* dialog is up, the progress indicator hidden, and the current-weather tab
\* and current_weather_data still hold the record of the first city
C28_Witness ==
    /\ Len(threads) = 2
    /\ \A i \in 1..2 : threads[i].kind = "weather" /\ threads[i].pc = "done"
    /\ threads[1].outcome = "data"
    /\ threads[2].outcome = "failed"
    /\ threads[1].arg # threads[2].arg
    /\ afterQueue = <<>>
    /\ dialogs = <<Dialog("error", "Error")>>
    /\ stored["current"] = Content(1)
    /\ tabs["current"] = Content(1)

-----------------------------------------------------------------------------
(* The document of save_weather_data *)

\* a document has been written
Saved == snapshot # NoSnapshot

\* a record set of the document was fetched for the document's city, and, when
\* it was fetched in a unit system, in the document's units
FetchedFor(content) ==
    content # NoContent =>
        /\ content.arg = snapshot.city
        /\ content.units \in {"none", snapshot.units}

\* C29: the record sets of a written document (current_weather,
\* forecast_data, alerts_data) were all fetched for the city in its 'city'
\* field and in the unit system in its 'units' field.
C29_SnapshotSelfConsistent ==
    Saved => /\ FetchedFor(snapshot.current_weather)
             /\ FetchedFor(snapshot.forecast_data)
             /\ FetchedFor(snapshot.alerts_data)

-----------------------------------------------------------------------------
(* Outcome of a get-weather or get-forecast action *)

\* a get-weather or get-forecast action has been started as the i-th action
Started(i) ==
    /\ i <= Len(threads)
    /\ threads[i].kind \in {"weather", "forecast"}

\* the worker of action i has returned and all its callbacks have run
Settled(i) ==
    /\ i <= Len(threads)
    /\ threads[i].pc = "done"
    /\ Pending(i) = 0

\* a is the beginning of b
BeginningOf(a, b) == Len(a) <= Len(b) /\ a = SubSeq(b, 1, Len(a))

\* the callbacks of an action with one outcome: the display of its tab and the
\* success status, or one error dialog; then hide_progress
OneOutcome ==
    {<<"display", "status", "hide_progress">>, <<"showerror", "hide_progress">>}

\* C27: every started get-weather or get-forecast action finishes: its worker
\* returns and all its callbacks run.  When it has, the callbacks it scheduled
\* and the callbacks that ran for it are the same, and they are either the
\* display of its tab, the success status and hide_progress, or one error
\* dialog and hide_progress, in this order: one outcome, never both and never
\* none, and hide_progress once, after the outcome.  While it has not, no
\* callback of it runs twice or out of order.
C27_OneOutcomeThenHideProgress ==
    \A i \in 1..MaxActions :
        /\ [](Started(i) => <>(Settled(i) /\ threads[i].ran \in OneOutcome))
        /\ [](Started(i) =>
                 /\ \E seq \in OneOutcome : BeginningOf(threads[i].scheduled, seq)
                 /\ BeginningOf(threads[i].ran, threads[i].scheduled)
                 /\ Settled(i) => threads[i].ran = threads[i].scheduled)

\* get-weather failed and get-forecast succeeded, overlapping: the first ended
\* with its error dialog, the second with its display and status, each
\* followed by its hide_progress
C27_Witness ==
    /\ Len(threads) = 2
    /\ threads[1].kind = "weather" /\ threads[2].kind = "forecast"
    /\ Settled(1) /\ Settled(2)
    /\ threads[1].ran = <<"showerror", "hide_progress">>
    /\ threads[2].ran = <<"display", "status", "hide_progress">>
    /\ dialogs = <<Dialog("error", "Error")>>
    /\ tabs["forecast"] = Content(2)
    /\ ~progressShown

====
